---- MODULE Spec2Model ----
(***************************************************************************)
(* Model of the course-entry grouping parser of vislog-core                *)
(* (vislog-core/src/parsing/courses.rs): CoursesParser::parse drives       *)
(* parse_entry over the classified entries and ends with finish.           *)
(*                                                                         *)
(* A CourseEntry is a record [kind, id, children]: kind is "Course" or     *)
(* "Label" for a leaf (children = <<>>) and "And" or "Or" for a group      *)
(* (id = 0).  A classified entry is [kind, id] with kind one of "And",     *)
(* "Or", "Blank", "Label", "Course"; the id of a leaf is its position in   *)
(* the input, so that every leaf of an input is distinguishable.           *)
(***************************************************************************)
EXTENDS Integers, Sequences, FiniteSets, TLC

\* Longest input the parse loop is run on when the entries are drawn freely.
MaxLen == 10

EntryKinds == {"And", "Or", "Blank", "Label", "Course"}
LeafKinds == {"Label", "Course"}
OperatorKinds == {"And", "Or"}

States ==
    {"InitialState", "CourseDetection", "InitialBlankRead", "ReadCourseNoOp",
     "OperatorRead", "ReadCourseWithOp", "TerminatingBlankRead",
     "NestingOperatorRead", "NestedInitialBlankRead", "NestedReadCourseNoOp",
     "NestedOperatorRead", "NestedReadCourseWithOp",
     "NestedTerminatingBlankRead"}

VARIABLES
    state,          \* CoursesParser.state
    operator,       \* ParsingState.operator: "None", "And" or "Or"
    course_buffer,  \* ParsingState.course_buffer: Option<Vec<CourseEntry>>
    entries,        \* ParsingState.entries
    raw_entries,    \* CoursesParser.raw_entries, as far as it is determined
    input,          \* the entries of raw_entries the loop of parse has consumed
    result,         \* what parse returned, once it has returned
    cache,          \* ProgramsProvider.cache: the ProviderCache in the lock
    cache_lock,     \* the RwLock around the cache: holders and waiters
    json_provider,  \* the RwLock around the JsonProvider, and the reads made
    task            \* the tasks that call the provider: call, position, result

parserVars == <<state, operator, course_buffer, entries, raw_entries, input, result>>
providerVars == <<cache, cache_lock, json_provider, task>>
vars == <<state, operator, course_buffer, entries, raw_entries, input, result,
          cache, cache_lock, json_provider, task>>

----------------------------------------------------------------------------
\* Values

NoneBuf == [some |-> FALSE, v |-> <<>>]
SomeBuf(v) == [some |-> TRUE, v |-> v]

Node(kind, id, children) == [kind |-> kind, id |-> id, children |-> children]
LeafEntry(e) == Node(e.kind, e.id, <<>>)
GroupEntry(op, children) == Node(op, 0, children)
IsGroup(n) == n.kind \in OperatorKinds
IsLeaf(n) == n.kind \in LeafKinds

Running == [status |-> "Running", err |-> "", detail |-> "", value |-> <<>>]
OkResult(v) == [status |-> "Ok", err |-> "", detail |-> "", value |-> v]
ErrResult(err, detail) ==
    [status |-> "Err", err |-> err, detail |-> detail, value |-> <<>>]

\* The parser's working state as one record; err is "" until a step fails.
initial ==
    [state |-> "InitialState", operator |-> "None", course_buffer |-> NoneBuf,
     entries |-> <<>>, err |-> "", detail |-> ""]

InvalidEntry(ps, e) == [ps EXCEPT !.err = "InvalidEntry", !.detail = e.kind]
ParsingError(ps, msg) == [ps EXCEPT !.err = "ParsingError", !.detail = msg]
DoubleNesting(ps) == [ps EXCEPT !.err = "DoubleNesting", !.detail = ""]

\* course_buffer.get_or_insert(vec![]).push(entry)
GetOrInsertPush(ps, e) ==
    [ps EXCEPT !.course_buffer = SomeBuf(Append(ps.course_buffer.v, LeafEntry(e)))]

\* match course_buffer { Some(buf) => buf.push(entry), None => Err(..) }
PushOrFail(ps, e, next) ==
    IF ps.course_buffer.some
    THEN [ps EXCEPT !.course_buffer = SomeBuf(Append(ps.course_buffer.v, LeafEntry(e))),
                    !.state = next]
    ELSE ParsingError(ps, "course_buf should not be None")

\* entries.last_mut() matched as And(group) | Or(group), then group.push(g)
PushIntoLast(es, g) ==
    [es EXCEPT ![Len(es)] = [@ EXCEPT !.children = Append(@, g)]]

----------------------------------------------------------------------------
\* parse_entry, one definition per arm of `match self.state`

\* parse_entry_InitialState changed to take a leading operator marker the
\* way CourseDetection does
parse_entry_InitialState_operator_first(ps, e) ==
    CASE e.kind \in OperatorKinds ->
            [ps EXCEPT !.operator = e.kind, !.state = "OperatorRead"]
      [] e.kind = "Blank" -> [ps EXCEPT !.state = "InitialBlankRead"]
      [] OTHER -> [GetOrInsertPush(ps, e) EXCEPT !.state = "CourseDetection"]

parse_entry_InitialState(ps, e) ==
    CASE e.kind \in OperatorKinds -> InvalidEntry(ps, e)
      [] e.kind = "Blank" -> [ps EXCEPT !.state = "InitialBlankRead"]
      [] OTHER -> [GetOrInsertPush(ps, e) EXCEPT !.state = "CourseDetection"]

\* parse_entry_CourseDetection changed to go past OperatorRead on a marker
parse_entry_CourseDetection_skipping(ps, e) ==
    CASE e.kind \in OperatorKinds ->
            [ps EXCEPT !.operator = e.kind, !.state = "ReadCourseWithOp"]
      [] e.kind = "Blank" -> [ps EXCEPT !.state = "InitialBlankRead"]
      [] OTHER -> PushOrFail(ps, e, ps.state)

\* parse_entry_CourseDetection changed to emit the pending free leaves when
\* a marker arrives, so that the group starts with the marker
parse_entry_CourseDetection_flushing(ps, e) ==
    CASE e.kind \in OperatorKinds ->
            [ps EXCEPT !.entries = ps.entries \o ps.course_buffer.v,
                       !.course_buffer = SomeBuf(<<>>),
                       !.operator = e.kind, !.state = "OperatorRead"]
      [] e.kind = "Blank" -> [ps EXCEPT !.state = "InitialBlankRead"]
      [] OTHER -> PushOrFail(ps, e, ps.state)

parse_entry_CourseDetection(ps, e) ==
    CASE e.kind \in OperatorKinds ->
            [ps EXCEPT !.operator = e.kind, !.state = "OperatorRead"]
      [] e.kind = "Blank" -> [ps EXCEPT !.state = "InitialBlankRead"]
      [] OTHER -> PushOrFail(ps, e, ps.state)

\* parse_entry_InitialBlankRead changed to lose the free courses of the
\* buffer instead of moving them to entries
parse_entry_InitialBlankRead_dropping(ps, e) ==
    CASE e.kind \in OperatorKinds \cup {"Blank"} -> InvalidEntry(ps, e)
      [] OTHER ->
            IF ps.course_buffer.some
            THEN [ps EXCEPT !.course_buffer = SomeBuf(<<LeafEntry(e)>>),
                            !.state = "ReadCourseNoOp"]
            ELSE [ps EXCEPT !.state = "ReadCourseNoOp"]

parse_entry_InitialBlankRead(ps, e) ==
    CASE e.kind \in OperatorKinds \cup {"Blank"} -> InvalidEntry(ps, e)
      [] OTHER ->
            IF ps.course_buffer.some
            THEN \* the free courses move to entries, the buffer restarts
                 [ps EXCEPT !.entries = ps.entries \o ps.course_buffer.v,
                            !.course_buffer = SomeBuf(<<LeafEntry(e)>>),
                            !.state = "ReadCourseNoOp"]
            ELSE \* the None arm only changes the state
                 [ps EXCEPT !.state = "ReadCourseNoOp"]

parse_entry_ReadCourseNoOp(ps, e) ==
    CASE e.kind \in OperatorKinds ->
            IF ps.operator # "None"
            THEN ParsingError(ps, "operator should be None")
            ELSE [ps EXCEPT !.operator = e.kind, !.state = "OperatorRead"]
      [] e.kind = "Blank" -> InvalidEntry(ps, e)
      [] OTHER -> PushOrFail(ps, e, "ReadCourseNoOp")

parse_entry_OperatorRead(ps, e) ==
    CASE e.kind \in OperatorKinds \cup {"Blank"} -> InvalidEntry(ps, e)
      [] OTHER -> PushOrFail(ps, e, "ReadCourseWithOp")

\* parse_entry_ReadCourseWithOp changed to reject a repeated marker, as the
\* nested arm does
parse_entry_ReadCourseWithOp_no_chain(ps, e) ==
    CASE e.kind \in OperatorKinds ->
            IF ps.operator = "None"
            THEN ParsingError(ps, "operator should not be None")
            ELSE IF e.kind = ps.operator
                 THEN InvalidEntry(ps, e)
                 ELSE ParsingError(ps, "operator mismatch")
      [] e.kind = "Blank" -> [ps EXCEPT !.state = "TerminatingBlankRead"]
      [] OTHER -> PushOrFail(ps, e, ps.state)

\* parse_entry_ReadCourseWithOp changed to accept a marker of either kind
parse_entry_ReadCourseWithOp_any_operator(ps, e) ==
    CASE e.kind \in OperatorKinds ->
            IF ps.operator = "None"
            THEN ParsingError(ps, "operator should not be None")
            ELSE [ps EXCEPT !.state = "OperatorRead"]
      [] e.kind = "Blank" -> [ps EXCEPT !.state = "TerminatingBlankRead"]
      [] OTHER -> PushOrFail(ps, e, ps.state)

parse_entry_ReadCourseWithOp(ps, e) ==
    CASE e.kind \in OperatorKinds ->
            IF ps.operator = "None"
            THEN ParsingError(ps, "operator should not be None")
            ELSE IF e.kind = ps.operator
                 THEN [ps EXCEPT !.state = "OperatorRead"]
                 ELSE ParsingError(ps, "operator mismatch")
      [] e.kind = "Blank" -> [ps EXCEPT !.state = "TerminatingBlankRead"]
      [] OTHER -> PushOrFail(ps, e, ps.state)

\* parse_entry_TerminatingBlankRead changed to give the first sub-group of a
\* nest the kind of the nesting marker instead of the group's own operator
parse_entry_TerminatingBlankRead_nest_kind(ps, e) ==
    LET taken == [ps EXCEPT !.course_buffer = NoneBuf]
        untagged == [taken EXCEPT !.operator = "None"]
    IN  CASE e.kind = "Blank" -> InvalidEntry(ps, e)
          [] OTHER ->
                IF ~ps.course_buffer.some
                THEN ParsingError(ps, "course_buf should not be None")
                ELSE IF ps.operator = "None"
                THEN ParsingError(taken, "operator should not be None")
                ELSE IF e.kind \in OperatorKinds
                THEN [untagged EXCEPT
                        !.entries = Append(ps.entries,
                            GroupEntry(e.kind,
                                <<GroupEntry(e.kind, ps.course_buffer.v)>>)),
                        !.state = "NestingOperatorRead"]
                ELSE [untagged EXCEPT
                        !.entries = Append(ps.entries,
                            GroupEntry(ps.operator, ps.course_buffer.v)),
                        !.course_buffer = SomeBuf(<<LeafEntry(e)>>),
                        !.state = "CourseDetection"]

\* parse_entry_TerminatingBlankRead changed to emit the first sub-group of a
\* nest as it is, without the node of the nesting marker around it
parse_entry_TerminatingBlankRead_no_nest(ps, e) ==
    LET taken == [ps EXCEPT !.course_buffer = NoneBuf]
        untagged == [taken EXCEPT !.operator = "None"]
    IN  CASE e.kind = "Blank" -> InvalidEntry(ps, e)
          [] OTHER ->
                IF ~ps.course_buffer.some
                THEN ParsingError(ps, "course_buf should not be None")
                ELSE IF ps.operator = "None"
                THEN ParsingError(taken, "operator should not be None")
                ELSE IF e.kind \in OperatorKinds
                THEN [untagged EXCEPT
                        !.entries = ps.entries \o ps.course_buffer.v,
                        !.state = "NestingOperatorRead"]
                ELSE [untagged EXCEPT
                        !.entries = Append(ps.entries,
                            GroupEntry(ps.operator, ps.course_buffer.v)),
                        !.course_buffer = SomeBuf(<<LeafEntry(e)>>),
                        !.state = "CourseDetection"]

parse_entry_TerminatingBlankRead(ps, e) ==
    LET taken == [ps EXCEPT !.course_buffer = NoneBuf]
        untagged == [taken EXCEPT !.operator = "None"]
        operator_entry == GroupEntry(ps.operator, ps.course_buffer.v)
    IN  CASE e.kind = "Blank" -> InvalidEntry(ps, e)
          [] OTHER ->
                IF ~ps.course_buffer.some
                THEN ParsingError(ps, "course_buf should not be None")
                ELSE IF ps.operator = "None"
                THEN ParsingError(taken, "operator should not be None")
                ELSE IF e.kind \in OperatorKinds
                THEN [untagged EXCEPT
                        !.entries = Append(ps.entries,
                                           GroupEntry(e.kind, <<operator_entry>>)),
                        !.state = "NestingOperatorRead"]
                ELSE [untagged EXCEPT
                        !.entries = Append(ps.entries, operator_entry),
                        !.course_buffer = SomeBuf(<<LeafEntry(e)>>),
                        !.state = "CourseDetection"]

parse_entry_NestingOperatorRead(ps, e) ==
    CASE e.kind = "Blank" -> [ps EXCEPT !.state = "NestedInitialBlankRead"]
      [] OTHER -> InvalidEntry(ps, e)

parse_entry_NestedInitialBlankRead(ps, e) ==
    CASE e.kind \in OperatorKinds \cup {"Blank"} -> InvalidEntry(ps, e)
      [] OTHER -> [GetOrInsertPush(ps, e) EXCEPT !.state = "NestedReadCourseNoOp"]

parse_entry_NestedReadCourseNoOp(ps, e) ==
    CASE e.kind \in OperatorKinds ->
            [ps EXCEPT !.operator = e.kind, !.state = "NestedOperatorRead"]
      [] e.kind = "Blank" -> InvalidEntry(ps, e)
      [] OTHER -> GetOrInsertPush(ps, e)

parse_entry_NestedOperatorRead(ps, e) ==
    CASE e.kind \in OperatorKinds \cup {"Blank"} -> InvalidEntry(ps, e)
      [] OTHER -> PushOrFail(ps, e, "NestedReadCourseWithOp")

\* parse_entry_NestedReadCourseWithOp changed to accept a repetition of the
\* sub-group's operator, as the flat arm does
parse_entry_NestedReadCourseWithOp_chaining(ps, e) ==
    CASE e.kind \in OperatorKinds ->
            IF e.kind = ps.operator
            THEN [ps EXCEPT !.state = "NestedOperatorRead"]
            ELSE InvalidEntry(ps, e)
      [] e.kind = "Blank" -> [ps EXCEPT !.state = "NestedTerminatingBlankRead"]
      [] OTHER -> PushOrFail(ps, e, ps.state)

parse_entry_NestedReadCourseWithOp(ps, e) ==
    CASE e.kind \in OperatorKinds -> InvalidEntry(ps, e)
      [] e.kind = "Blank" -> [ps EXCEPT !.state = "NestedTerminatingBlankRead"]
      [] OTHER -> PushOrFail(ps, e, ps.state)

\* parse_entry_NestedTerminatingBlankRead changed to compare the marker with
\* the sub-group's own operator instead of the kind of the nest
parse_entry_NestedTerminatingBlankRead_own_operator(ps, e) ==
    LET operator_entry == GroupEntry(ps.operator, ps.course_buffer.v)
        noLast == ps.entries = <<>>
        badLast == ~IsGroup(ps.entries[Len(ps.entries)])
    IN  CASE e.kind = "Blank" -> InvalidEntry(ps, e)
          [] e.kind \in OperatorKinds ->
                LET taken == [ps EXCEPT !.course_buffer = NoneBuf]
                    untagged == [taken EXCEPT !.operator = "None"]
                    pushed == [untagged EXCEPT
                                 !.entries = PushIntoLast(ps.entries, operator_entry)]
                IN  IF ~ps.course_buffer.some
                    THEN ParsingError(ps, "course_buf should not be None")
                    ELSE IF ps.operator = "None"
                    THEN ParsingError(taken, "operator should not be None")
                    ELSE IF noLast
                    THEN ParsingError(untagged, "there should be at least one entry")
                    ELSE IF badLast
                    THEN ParsingError(untagged, "invalid nesting operator group")
                    ELSE IF ps.operator = e.kind
                    THEN [pushed EXCEPT !.state = "NestingOperatorRead"]
                    ELSE DoubleNesting(pushed)
          [] OTHER ->
                LET swapped == [ps EXCEPT !.course_buffer = SomeBuf(<<LeafEntry(e)>>)]
                    untagged == [swapped EXCEPT !.operator = "None"]
                IN  IF ~ps.course_buffer.some
                    THEN ParsingError(ps, "course_buf should not be None")
                    ELSE IF ps.operator = "None"
                    THEN ParsingError(swapped, "operator should not be None")
                    ELSE IF noLast
                    THEN ParsingError(untagged, "there should be at least one entry")
                    ELSE IF badLast
                    THEN ParsingError(untagged, "invalid nesting operator group")
                    ELSE [untagged EXCEPT
                            !.entries = PushIntoLast(ps.entries, operator_entry),
                            !.state = "CourseDetection"]

\* parse_entry_NestedTerminatingBlankRead changed to stay in its state on a
\* Blank instead of rejecting it
parse_entry_NestedTerminatingBlankRead_tolerant(ps, e) ==
    LET operator_entry == GroupEntry(ps.operator, ps.course_buffer.v)
        noLast == ps.entries = <<>>
        badLast == ~IsGroup(ps.entries[Len(ps.entries)])
    IN  CASE e.kind = "Blank" -> ps
          [] e.kind \in OperatorKinds ->
                LET taken == [ps EXCEPT !.course_buffer = NoneBuf]
                    untagged == [taken EXCEPT !.operator = "None"]
                    pushed == [untagged EXCEPT
                                 !.entries = PushIntoLast(ps.entries, operator_entry)]
                IN  IF ~ps.course_buffer.some
                    THEN ParsingError(ps, "course_buf should not be None")
                    ELSE IF ps.operator = "None"
                    THEN ParsingError(taken, "operator should not be None")
                    ELSE IF noLast
                    THEN ParsingError(untagged, "there should be at least one entry")
                    ELSE IF badLast
                    THEN ParsingError(untagged, "invalid nesting operator group")
                    ELSE IF ps.entries[Len(ps.entries)].kind = e.kind
                    THEN [pushed EXCEPT !.state = "NestingOperatorRead"]
                    ELSE DoubleNesting(pushed)
          [] OTHER ->
                LET swapped == [ps EXCEPT !.course_buffer = SomeBuf(<<LeafEntry(e)>>)]
                    untagged == [swapped EXCEPT !.operator = "None"]
                IN  IF ~ps.course_buffer.some
                    THEN ParsingError(ps, "course_buf should not be None")
                    ELSE IF ps.operator = "None"
                    THEN ParsingError(swapped, "operator should not be None")
                    ELSE IF noLast
                    THEN ParsingError(untagged, "there should be at least one entry")
                    ELSE IF badLast
                    THEN ParsingError(untagged, "invalid nesting operator group")
                    ELSE [untagged EXCEPT
                            !.entries = PushIntoLast(ps.entries, operator_entry),
                            !.state = "CourseDetection"]

parse_entry_NestedTerminatingBlankRead(ps, e) ==
    LET operator_entry == GroupEntry(ps.operator, ps.course_buffer.v)
        noLast == ps.entries = <<>>
        badLast == ~IsGroup(ps.entries[Len(ps.entries)])
    IN  CASE e.kind = "Blank" -> InvalidEntry(ps, e)
          [] e.kind \in OperatorKinds ->
                LET taken == [ps EXCEPT !.course_buffer = NoneBuf]
                    untagged == [taken EXCEPT !.operator = "None"]
                    pushed == [untagged EXCEPT
                                 !.entries = PushIntoLast(ps.entries, operator_entry)]
                IN  IF ~ps.course_buffer.some
                    THEN ParsingError(ps, "course_buf should not be None")
                    ELSE IF ps.operator = "None"
                    THEN ParsingError(taken, "operator should not be None")
                    ELSE IF noLast
                    THEN ParsingError(untagged, "there should be at least one entry")
                    ELSE IF badLast
                    THEN ParsingError(untagged, "invalid nesting operator group")
                    ELSE IF ps.entries[Len(ps.entries)].kind = e.kind
                    THEN [pushed EXCEPT !.state = "NestingOperatorRead"]
                    ELSE DoubleNesting(pushed)
          [] OTHER ->
                LET swapped == [ps EXCEPT !.course_buffer = SomeBuf(<<LeafEntry(e)>>)]
                    untagged == [swapped EXCEPT !.operator = "None"]
                IN  IF ~ps.course_buffer.some
                    THEN ParsingError(ps, "course_buf should not be None")
                    ELSE IF ps.operator = "None"
                    THEN ParsingError(swapped, "operator should not be None")
                    ELSE IF noLast
                    THEN ParsingError(untagged, "there should be at least one entry")
                    ELSE IF badLast
                    THEN ParsingError(untagged, "invalid nesting operator group")
                    ELSE [untagged EXCEPT
                            !.entries = PushIntoLast(ps.entries, operator_entry),
                            !.state = "CourseDetection"]

parse_entry(ps, e) ==
    CASE ps.state = "InitialState" -> parse_entry_InitialState(ps, e)
      [] ps.state = "CourseDetection" -> parse_entry_CourseDetection(ps, e)
      [] ps.state = "InitialBlankRead" -> parse_entry_InitialBlankRead(ps, e)
      [] ps.state = "ReadCourseNoOp" -> parse_entry_ReadCourseNoOp(ps, e)
      [] ps.state = "OperatorRead" -> parse_entry_OperatorRead(ps, e)
      [] ps.state = "ReadCourseWithOp" -> parse_entry_ReadCourseWithOp(ps, e)
      [] ps.state = "TerminatingBlankRead" -> parse_entry_TerminatingBlankRead(ps, e)
      [] ps.state = "NestingOperatorRead" -> parse_entry_NestingOperatorRead(ps, e)
      [] ps.state = "NestedInitialBlankRead" -> parse_entry_NestedInitialBlankRead(ps, e)
      [] ps.state = "NestedReadCourseNoOp" -> parse_entry_NestedReadCourseNoOp(ps, e)
      [] ps.state = "NestedOperatorRead" -> parse_entry_NestedOperatorRead(ps, e)
      [] ps.state = "NestedReadCourseWithOp" -> parse_entry_NestedReadCourseWithOp(ps, e)
      [] ps.state = "NestedTerminatingBlankRead" ->
            parse_entry_NestedTerminatingBlankRead(ps, e)

----------------------------------------------------------------------------
\* finish

InvalidFinishStates ==
    {"InitialState", "InitialBlankRead", "ReadCourseNoOp", "OperatorRead",
     "NestingOperatorRead", "NestedInitialBlankRead", "NestedReadCourseNoOp",
     "NestedOperatorRead"}

\* finish_CourseDetection changed to return the emitted entries without the
\* free courses still in the buffer
finish_CourseDetection_dropping(ps) ==
    IF ~ps.course_buffer.some
    THEN ErrResult("ParsingError", "course_buf should not be None")
    ELSE OkResult(ps.entries)

finish_CourseDetection(ps) ==
    IF ~ps.course_buffer.some
    THEN ErrResult("ParsingError", "course_buf should not be None")
    ELSE OkResult(ps.entries \o ps.course_buffer.v)

finish_ReadCourseWithOp(ps) ==
    IF ps.operator = "None"
    THEN ErrResult("ParsingError", "operator should not be None")
    ELSE IF ~ps.course_buffer.some
    THEN ErrResult("ParsingError", "course_buf should not be None")
    ELSE OkResult(Append(ps.entries, GroupEntry(ps.operator, ps.course_buffer.v)))

\* finish_TerminatingBlankRead changed to treat the state as an invalid
\* finishing state
finish_TerminatingBlankRead_rejecting(ps) ==
    ErrResult("InvalidFinish", ps.state)

\* wraps the emitted entries, not the buffer, in the operator
finish_TerminatingBlankRead(ps) ==
    IF ps.operator = "None"
    THEN ErrResult("ParsingError", "operator should not be None")
    ELSE OkResult(<<GroupEntry(ps.operator, ps.entries)>>)

\* finish_Nested changed to emit the last sub-group at the top level, after
\* the nest
finish_Nested_appending(ps) ==
    IF ps.operator = "None"
    THEN ErrResult("ParsingError", "operator should not be None")
    ELSE IF ~ps.course_buffer.some
    THEN ErrResult("ParsingError", "course_buf should not be None")
    ELSE IF ps.entries = <<>>
    THEN ErrResult("ParsingError", "there should be at least one entry")
    ELSE IF ~IsGroup(ps.entries[Len(ps.entries)])
    THEN ErrResult("ParsingError", "invalid nesting operator group")
    ELSE OkResult(Append(ps.entries,
                         GroupEntry(ps.operator, ps.course_buffer.v)))

\* the arms NestedReadCourseWithOp and NestedTerminatingBlankRead are alike
finish_Nested(ps) ==
    IF ps.operator = "None"
    THEN ErrResult("ParsingError", "operator should not be None")
    ELSE IF ~ps.course_buffer.some
    THEN ErrResult("ParsingError", "course_buf should not be None")
    ELSE IF ps.entries = <<>>
    THEN ErrResult("ParsingError", "there should be at least one entry")
    ELSE IF ~IsGroup(ps.entries[Len(ps.entries)])
    THEN ErrResult("ParsingError", "invalid nesting operator group")
    ELSE OkResult(PushIntoLast(ps.entries,
                               GroupEntry(ps.operator, ps.course_buffer.v)))

\* finish changed to accept InitialState and return what has been emitted
finish_accepting_initial(ps) ==
    CASE ps.state = "InitialState" -> OkResult(ps.entries)
      [] ps.state \in InvalidFinishStates \ {"InitialState"} ->
            ErrResult("InvalidFinish", ps.state)
      [] ps.state = "CourseDetection" -> finish_CourseDetection(ps)
      [] ps.state = "ReadCourseWithOp" -> finish_ReadCourseWithOp(ps)
      [] ps.state = "TerminatingBlankRead" -> finish_TerminatingBlankRead(ps)
      [] ps.state \in {"NestedReadCourseWithOp", "NestedTerminatingBlankRead"} ->
            finish_Nested(ps)

finish(ps) ==
    CASE ps.state \in InvalidFinishStates -> ErrResult("InvalidFinish", ps.state)
      [] ps.state = "CourseDetection" -> finish_CourseDetection(ps)
      [] ps.state = "ReadCourseWithOp" -> finish_ReadCourseWithOp(ps)
      [] ps.state = "TerminatingBlankRead" -> finish_TerminatingBlankRead(ps)
      [] ps.state \in {"NestedReadCourseWithOp", "NestedTerminatingBlankRead"} ->
            finish_Nested(ps)

----------------------------------------------------------------------------
\* CoursesParser::new, and CoursesParser::parse as a loop of steps

Config ==
    [state |-> state, operator |-> operator, course_buffer |-> course_buffer,
     entries |-> entries, err |-> "", detail |-> ""]

\* The entries of an input, given the kinds: an entry's id is its position.
Entries(kinds) == [i \in 1..Len(kinds) |-> [kind |-> kinds[i], id |-> i]]

\* Number of tasks that call the provider, and calls they make at most, all
\* tasks together.
NumTasks == 2
MaxProviderCalls == 2

Tasks == 1..NumTasks
NoTask == 0

\* tokio::sync::RwLock::new: no guard is out and nobody waits
FreeLock == [readers |-> {}, writer |-> NoTask, waiting |-> <<>>]

EmptyCache == [items |-> {}, errors |-> <<>>]

\* ProgramsProvider::with: an empty cache, both locks free, no call made yet
ProviderInit ==
    /\ cache = EmptyCache
    /\ cache_lock = FreeLock
    /\ json_provider = [lock |-> FreeLock, reads |-> 0, last |-> "None"]
    /\ task = [t \in Tasks |->
                [call |-> "None", pc |-> "idle", calls |-> 0,
                 returned |-> [status |-> "None", value |-> <<>>]]]

ParserInit ==
    /\ state = initial.state
    /\ operator = initial.operator
    /\ course_buffer = initial.course_buffer
    /\ entries = initial.entries
    /\ input = <<>>
    /\ result = Running

\* CoursesParser::new on an input whose entries the loop draws one by one
Init ==
    /\ ParserInit
    /\ ProviderInit
    /\ raw_entries = <<>>

\* the effect of one iteration of the loop of parse on entry e:
\* parse_entry(e)?, whose error parse returns
Consume(e) ==
    LET ps == parse_entry(Config, e)
    IN  /\ input' = Append(input, e)
        /\ state' = ps.state
        /\ operator' = ps.operator
        /\ course_buffer' = ps.course_buffer
        /\ entries' = ps.entries
        /\ result' = IF ps.err = "" THEN result
                     ELSE ErrResult(ps.err, ps.detail)
        /\ UNCHANGED providerVars

\* one iteration of the loop, on an entry of any kind
ParseEntry ==
    /\ result.status = "Running"
    /\ Len(input) = Len(raw_entries)
    /\ Len(input) < MaxLen
    /\ \E k \in EntryKinds :
          LET e == [kind |-> k, id |-> Len(input) + 1]
          IN  /\ raw_entries' = Append(raw_entries, e)
              /\ Consume(e)

\* the input is exhausted: parse returns what finish returns
Finish ==
    /\ result.status = "Running"
    /\ Len(input) = Len(raw_entries)
    /\ result' = finish(Config)
    /\ UNCHANGED <<state, operator, course_buffer, entries, raw_entries, input>>
    /\ UNCHANGED providerVars

Next == ParseEntry \/ Finish

Spec == Init /\ [][Next]_vars

----------------------------------------------------------------------------
\* parse on inputs fixed at construction: the documented scenarios and the
\* families around them, o1..o3 and n1, n2 ranging over the two markers

ScenarioSpecNest(o1, o2, o3) ==
    Entries(<<"Blank", "Course", o1, "Course", "Blank", "Blank", "Course", o2,
              "Course", "Blank", "Course", o3, "Course">>)

ScenarioNest(o1, n1, o2, n2, o3) ==
    Entries(<<"Course", o1, "Course", "Blank", n1, "Blank", "Course", o2,
              "Course", "Blank", n2, "Blank", "Course", o3, "Course">>)

ScenarioGroupAfterNest(o1, n1, o2, o3) ==
    Entries(<<"Course", o1, "Course", "Blank", n1, "Blank", "Course", o2,
              "Course", "Blank", "Course", o3, "Course", "Blank">>)

\* k Course entries
CourseKinds(k) == [i \in 1..k |-> "Course"]

\* the kinds of a nest of groups that all have operator o, joined by
\* Blank n Blank; sizes[i] = <<k, m>> gives group i k entries, o, m entries
RECURSIVE NestKinds(_, _, _)
NestKinds(o, n, sizes) ==
    LET group == CourseKinds(sizes[1][1]) \o <<o>> \o CourseKinds(sizes[1][2])
    IN  IF Len(sizes) = 1 THEN group
        ELSE group \o <<"Blank", n, "Blank">> \o NestKinds(o, n, Tail(sizes))

GroupSizes == {<<1, 1>>, <<2, 1>>, <<1, 2>>}

ScenarioUniformNests ==
    {Entries(NestKinds(o, n, sizes)) :
        o \in OperatorKinds, n \in OperatorKinds,
        sizes \in [1..2 -> GroupSizes] \cup [1..3 -> GroupSizes]}

Scenarios ==
    ScenarioUniformNests \cup
    {<<>>,
     Entries(<<"Course", "Course">>),
     Entries(<<"Blank", "Course", "And", "Course">>),
     Entries(<<"Course", "Blank", "Course", "Or", "Course", "Blank", "Course">>),
     Entries(<<"Course", "And">>)}
    \cup {ScenarioSpecNest(o1, o2, o3) : o1 \in OperatorKinds,
            o2 \in OperatorKinds, o3 \in OperatorKinds}
    \cup UNION {{ScenarioNest(o1, n1, o2, n2, o3) : o1 \in OperatorKinds,
                   o2 \in OperatorKinds, o3 \in OperatorKinds} :
                n1 \in OperatorKinds, n2 \in OperatorKinds}
    \cup UNION {{ScenarioGroupAfterNest(o1, n1, o2, o3) : o1 \in OperatorKinds,
                   o2 \in OperatorKinds} :
                n1 \in OperatorKinds, o3 \in OperatorKinds}

InitScenario ==
    /\ ParserInit
    /\ ProviderInit
    /\ raw_entries \in Scenarios

\* one iteration of the loop, on the next entry of the fixed input
ParseNext ==
    /\ result.status = "Running"
    /\ Len(input) < Len(raw_entries)
    /\ Consume(raw_entries[Len(input) + 1])
    /\ UNCHANGED raw_entries

NextScenario == ParseNext \/ Finish

SpecScenario == InitScenario /\ [][NextScenario]_vars

TypeOK ==
    /\ state \in States
    /\ operator \in OperatorKinds \cup {"None"}
    /\ course_buffer.some \in BOOLEAN
    /\ Len(input) <= Len(raw_entries)
    /\ input = SubSeq(raw_entries, 1, Len(input))
    /\ result.status \in {"Running", "Ok", "Err"}

----------------------------------------------------------------------------
\* The classifier, TryFrom<RawCourseEntry> for ParsedCourseEntry, and the
\* helper parsers it calls.  A string the code inspects character by
\* character (guid, credits) is a sequence of one-character strings; a name,
\* number or subject code, which the code only compares or moves, is a
\* string.  An Option<String> is [some, v].

NoneStr == [some |-> FALSE, v |-> ""]
SomeStr(str) == [some |-> TRUE, v |-> str]

GuidMinLen == 32
GuidMaxLen == 36
GuidBytes == 16

HexLower ==
    <<"0", "1", "2", "3", "4", "5", "6", "7", "8", "9",
      "a", "b", "c", "d", "e", "f">>
HexUpper == <<"A", "B", "C", "D", "E", "F">>

\* A character is a string.  A character of ASCII that can be written in a
\* string is written as itself; the others are written by one stand-in for
\* each thing the code can tell about them: "é" for the characters of two
\* bytes, "€" for those of three, "U+10000" for those of four, and "U+0001"
\* for the control characters (U+0000 to U+001F) that have no escape of
\* their own in a string.

\* char::len_utf8: the bytes a character takes in a str
Utf8Len(c) ==
    CASE c = "é" -> 2
      [] c = "€" -> 3
      [] c = "U+10000" -> 4
      [] OTHER -> 1

\* str::len: the length in bytes
RECURSIVE ByteLen(_)
ByteLen(str) ==
    IF str = <<>> THEN 0 ELSE Utf8Len(Head(str)) + ByteLen(Tail(str))

\* hex_to_num: the value of a hex digit, -1 for None
hex_to_num(c) ==
    IF \E i \in 1..16 : HexLower[i] = c
    THEN (CHOOSE i \in 1..16 : HexLower[i] = c) - 1
    ELSE IF \E i \in 1..6 : HexUpper[i] = c
    THEN (CHOOSE i \in 1..6 : HexUpper[i] = c) + 9
    ELSE -1

\* a | b and a ^ b on the low eight bits, a << k on a u8
RECURSIVE BitOr(_, _, _)
BitOr(a, b, bits) ==
    IF bits = 0 THEN 0
    ELSE (IF a % 2 = 1 \/ b % 2 = 1 THEN 1 ELSE 0)
         + 2 * BitOr(a \div 2, b \div 2, bits - 1)
RECURSIVE BitXor(_, _, _)
BitXor(a, b, bits) ==
    IF bits = 0 THEN 0
    ELSE (IF a % 2 # b % 2 THEN 1 ELSE 0)
         + 2 * BitXor(a \div 2, b \div 2, bits - 1)
Shl(n, k) == (n * 2^k) % 256

\* the older form of the statement: n << (byte_index ^ 1), the shift not
\* scaled to four bits
Accumulate_unscaled(byte, n, byte_index) ==
    BitOr(byte, Shl(n, BitXor(byte_index, 1, 8)), 8)

\* byte |= n << 4 * (byte_index ^ 1)
Accumulate(byte, n, byte_index) ==
    BitOr(byte, Shl(n, 4 * BitXor(byte_index, 1, 8)), 8)

\* the while loop of Guid::try_from that reads one byte from character i
\* on: '-' is skipped, two hex digits make the byte; gives the byte and the
\* position after it
RECURSIVE ReadByte(_, _, _, _)
ReadByte(str, i, byte, byte_index) ==
    IF byte_index = 2 THEN [ok |-> TRUE, err |-> "", byte |-> byte, i |-> i]
    ELSE IF i > Len(str) THEN [ok |-> FALSE, err |-> "TooShort", byte |-> 0, i |-> i]
    ELSE IF str[i] = "-" THEN ReadByte(str, i + 1, byte, byte_index)
    ELSE IF hex_to_num(str[i]) = -1
    THEN [ok |-> FALSE, err |-> "InvalidCharacter", byte |-> 0, i |-> i]
    ELSE ReadByte(str, i + 1,
                  Accumulate(byte, hex_to_num(str[i]), byte_index),
                  byte_index + 1)

\* the for loop of Guid::try_from from character i on: inner holds the bytes
\* that are complete; nothing is read once 16 bytes are complete
RECURSIVE GuidScan(_, _, _)
GuidScan(str, i, inner) ==
    IF Len(inner) = GuidBytes THEN [ok |-> TRUE, err |-> "", inner |-> inner]
    ELSE LET b == ReadByte(str, i, 0, 0)
         IN  IF ~b.ok THEN [ok |-> FALSE, err |-> b.err, inner |-> <<>>]
             ELSE GuidScan(str, b.i, Append(inner, b.byte))

\* try_from changed to read the characters before it checks the length
Guid_try_from_scan_first(str) ==
    LET r == GuidScan(str, 1, <<>>)
    IN  IF ~r.ok /\ r.err = "InvalidCharacter" THEN r
        ELSE IF ByteLen(str) < GuidMinLen
        THEN [ok |-> FALSE, err |-> "TooShort", inner |-> <<>>]
        ELSE IF ByteLen(str) > GuidMaxLen
        THEN [ok |-> FALSE, err |-> "TooLong", inner |-> <<>>]
        ELSE r

\* Guid::try_from(&str): the 16 bytes, or the error
Guid_try_from(str) ==
    IF ByteLen(str) < GuidMinLen
    THEN [ok |-> FALSE, err |-> "TooShort", inner |-> <<>>]
    ELSE IF ByteLen(str) > GuidMaxLen
    THEN [ok |-> FALSE, err |-> "TooLong", inner |-> <<>>]
    ELSE GuidScan(str, 1, <<>>)

DecDigits == {"0", "1", "2", "3", "4", "5", "6", "7", "8", "9"}

\* the value of a sequence of decimal digits
RECURSIVE DecimalValue(_)
DecimalValue(ds) ==
    IF ds = <<>> THEN 0
    ELSE 10 * DecimalValue(SubSeq(ds, 1, Len(ds) - 1)) + hex_to_num(ds[Len(ds)])

\* a string of digits without its leading zeros
RECURSIVE StripZeros(_)
StripZeros(ds) ==
    IF ds # <<>> /\ Head(ds) = "0" THEN StripZeros(Tail(ds)) ELSE ds

\* str::parse::<u8>: an optional '+', then digits only, at least one, value
\* at most 255
parse_u8(str) ==
    LET body == IF str # <<>> /\ str[1] = "+" THEN Tail(str) ELSE str
        digits == StripZeros(body)
    IN  IF body # <<>> /\ (\A i \in 1..Len(body) : body[i] \in DecDigits)
                       /\ Len(digits) <= 3
                       /\ DecimalValue(digits) <= 255
        THEN [ok |-> TRUE, v |-> DecimalValue(digits)]
        ELSE [ok |-> FALSE, v |-> 0]

RECURSIVE Pow(_, _)
Pow(base, n) == IF n = 0 THEN 1 ELSE base * Pow(base, n - 1)

\* the exponent of the binade of n >= 1: the largest e with 2^e <= n
RECURSIVE Log2(_)
Log2(n) == IF n < 2 THEN 0 ELSE 1 + Log2(n \div 2)

\* The decimal digits after the point of 2^-k, for k = 1..25: half the
\* distance of two neighbouring f32 below 2^23 is one of them.
HalfSteps ==
    <<<<5>>,
    <<2, 5>>,
    <<1, 2, 5>>,
    <<0, 6, 2, 5>>,
    <<0, 3, 1, 2, 5>>,
    <<0, 1, 5, 6, 2, 5>>,
    <<0, 0, 7, 8, 1, 2, 5>>,
    <<0, 0, 3, 9, 0, 6, 2, 5>>,
    <<0, 0, 1, 9, 5, 3, 1, 2, 5>>,
    <<0, 0, 0, 9, 7, 6, 5, 6, 2, 5>>,
    <<0, 0, 0, 4, 8, 8, 2, 8, 1, 2, 5>>,
    <<0, 0, 0, 2, 4, 4, 1, 4, 0, 6, 2, 5>>,
    <<0, 0, 0, 1, 2, 2, 0, 7, 0, 3, 1, 2, 5>>,
    <<0, 0, 0, 0, 6, 1, 0, 3, 5, 1, 5, 6, 2, 5>>,
    <<0, 0, 0, 0, 3, 0, 5, 1, 7, 5, 7, 8, 1, 2, 5>>,
    <<0, 0, 0, 0, 1, 5, 2, 5, 8, 7, 8, 9, 0, 6, 2, 5>>,
    <<0, 0, 0, 0, 0, 7, 6, 2, 9, 3, 9, 4, 5, 3, 1, 2, 5>>,
    <<0, 0, 0, 0, 0, 3, 8, 1, 4, 6, 9, 7, 2, 6, 5, 6, 2, 5>>,
    <<0, 0, 0, 0, 0, 1, 9, 0, 7, 3, 4, 8, 6, 3, 2, 8, 1, 2, 5>>,
    <<0, 0, 0, 0, 0, 0, 9, 5, 3, 6, 7, 4, 3, 1, 6, 4, 0, 6, 2, 5>>,
    <<0, 0, 0, 0, 0, 0, 4, 7, 6, 8, 3, 7, 1, 5, 8, 2, 0, 3, 1, 2, 5>>,
    <<0, 0, 0, 0, 0, 0, 2, 3, 8, 4, 1, 8, 5, 7, 9, 1, 0, 1, 5, 6, 2, 5>>,
    <<0, 0, 0, 0, 0, 0, 1, 1, 9, 2, 0, 9, 2, 8, 9, 5, 5, 0, 7, 8, 1, 2, 5>>,
    <<0, 0, 0, 0, 0, 0, 0, 5, 9, 6, 0, 4, 6, 4, 4, 7, 7, 5, 3, 9, 0, 6, 2, 5>>,
    <<0, 0, 0, 0, 0, 0, 0, 2, 9, 8, 0, 2, 3, 2, 2, 3, 8, 7, 6, 9, 5, 3, 1, 2, 5>>>>

\* the numbers of a string of digits
DigitsOf(ds) == [i \in 1..Len(ds) |-> hex_to_num(ds[i])]

\* 0.a against 0.b, for lists of digits: -1, 0 or 1
CmpFrac(a, b) ==
    LET A(i) == IF i <= Len(a) THEN a[i] ELSE 0
        B(i) == IF i <= Len(b) THEN b[i] ELSE 0
        diff == {i \in 1..(IF Len(a) > Len(b) THEN Len(a) ELSE Len(b)) :
                    A(i) # B(i)}
        first == CHOOSE i \in diff : \A j \in diff : i <= j
    IN  IF diff = {} THEN 0 ELSE IF A(first) < B(first) THEN -1 ELSE 1

\* floor of the f32 nearest to whole + 0.frac, ties to the even mantissa,
\* for whole < 2^30 and digits frac.  An f32 has 24 bits: in the binade of
\* 2^e neighbours are 2^(e-23) apart.  Below 2^23 a value half a step or
\* less under an integer is that integer; from 2^23 on every f32 is an
\* integer.
f32_floor(whole, frac) ==
    LET \* the digits of 1 - 0.t, for digits t that end in 5
        OneMinus(t) ==
            [i \in 1..Len(t) |-> IF i = Len(t) THEN 10 - t[i] ELSE 9 - t[i]]
    IN
    IF CmpFrac(frac, <<>>) = 0 /\ whole < Pow(2, 24) THEN whole
    ELSE IF whole < Pow(2, 23)
    THEN LET e == IF Pow(2, Log2(whole + 1)) = whole + 1
                  THEN Log2(whole + 1) - 1 ELSE Log2(whole + 1)
         IN  IF CmpFrac(frac, OneMinus(HalfSteps[24 - e])) >= 0
             THEN whole + 1 ELSE whole
    ELSE LET step == Pow(2, Log2(whole) - 23)
             q == whole \div step
             rem == 2 * (whole % step)
             more == CmpFrac(frac, <<>>) > 0
             up == \/ rem > step
                   \/ rem = step /\ (more \/ q % 2 = 1)
                   \/ step = 1 /\ CmpFrac(frac, <<5>>) > 0
                   \/ step = 1 /\ CmpFrac(frac, <<5>>) = 0 /\ q % 2 = 1
         IN  IF up THEN (q + 1) * step ELSE q * step

\* ceiling of the same f32: what floor gives, negated, for a negative
\* string; a value of half the least f32 or less is parsed as zero
f32_ceil(whole, frac) ==
    LET \* the digits after the point of 2^-150, half the least positive f32
        HalfLeastF32 ==
            <<0, 0, 0, 0, 0, 0, 0, 0, 0, 0, 0, 0, 0, 0, 0, 0, 0, 0, 0, 0, 0, 0, 0, 0, 0,
              0, 0, 0, 0, 0, 0, 0, 0, 0, 0, 0, 0, 0, 0, 0, 0, 0, 0, 0, 0, 7, 0, 0, 6, 4,
              9, 2, 3, 2, 1, 6, 2, 4, 0, 8, 5, 3, 5, 4, 6, 1, 8, 6, 4, 7, 9, 1, 6, 4, 4,
              9, 5, 8, 0, 6, 5, 6, 4, 0, 1, 3, 0, 9, 7, 0, 9, 3, 8, 2, 5, 7, 8, 8, 5, 8,
              7, 8, 5, 3, 4, 1, 4, 1, 9, 4, 4, 8, 9, 5, 5, 4, 1, 3, 4, 2, 9, 3, 0, 3, 0,
              0, 7, 4, 3, 3, 1, 9, 0, 9, 4, 1, 8, 1, 0, 6, 0, 7, 9, 1, 0, 1, 5, 6, 2, 5>>
    IN
    IF CmpFrac(frac, <<>>) = 0 \/ whole >= Pow(2, 23)
    THEN f32_floor(whole, frac)
    ELSE IF whole = 0
    THEN IF CmpFrac(frac, HalfLeastF32) <= 0 THEN 0 ELSE 1
    ELSE IF CmpFrac(frac, HalfSteps[24 - Log2(whole)]) <= 0
    THEN whole ELSE whole + 1

\* what parse::<f32> and floor give: a number v (class "finite"), a finite
\* f32 of 2^30 or more in magnitude, whose value is not kept ("huge"), an
\* infinity ("inf") or a NaN ("nan"); neg is the sign
F32(class, neg, v) == [ok |-> TRUE, class |-> class, neg |-> neg, v |-> v]

\* the exponent after 'e': an optional sign and digits, at least one; one of
\* more than six digits is as good as 10^6
parse_exponent(str) ==
    LET neg == str # <<>> /\ str[1] = "-"
        body == IF str # <<>> /\ str[1] \in {"-", "+"} THEN Tail(str) ELSE str
        digits == StripZeros(body)
        value == IF Len(digits) > 6 THEN Pow(10, 6) ELSE DecimalValue(digits)
    IN  IF body = <<>> \/ (\E i \in 1..Len(body) : body[i] \notin DecDigits)
        THEN [ok |-> FALSE, v |-> 0]
        ELSE [ok |-> TRUE, v |-> IF neg THEN 0 - value ELSE value]

\* the f32 nearest to 0.digits * 10^point, digits beginning with a digit
\* that is not 0, and its floor
f32_floor_of(neg, digits, point) ==
    LET whole == [i \in 1..point |->
                    IF i <= Len(digits) THEN digits[i] ELSE "0"]
        frac == IF point >= 0 THEN SubSeq(digits, point + 1, Len(digits))
                ELSE [i \in 1..(0 - point) |-> "0"] \o digits
        \* the digits of 2^128 - 2^103, halfway from the greatest finite f32
        \* to 2^128: from there on a decimal is parsed as infinity
        InfinityFrom ==
            <<3, 4, 0, 2, 8, 2, 3, 5, 6, 7, 7, 9, 7, 3, 3, 6, 6, 1, 6, 3, 7, 5, 3, 9, 3,
              9, 5, 4, 5, 8, 1, 4, 2, 5, 6, 8, 4, 4, 8>>
        \* the digits of 2^30: the value of a finite f32 is kept below it
        HugeFrom == <<1, 0, 7, 3, 7, 4, 1, 8, 2, 4>>
    IN  IF point > 39 THEN F32("inf", neg, 0)
        ELSE IF point < 0 - 45 THEN F32("finite", neg, 0)
        ELSE IF point = 39 /\ CmpFrac(DigitsOf(whole), InfinityFrom) >= 0
        THEN F32("inf", neg, 0)
        ELSE IF \/ point > 10
                \/ point = 10 /\ CmpFrac(DigitsOf(whole), HugeFrom) >= 0
        THEN F32("huge", neg, 0)
        ELSE IF neg
        THEN F32("finite", neg,
                 0 - f32_ceil(DecimalValue(whole), DigitsOf(frac)))
        ELSE F32("finite", neg,
                 f32_floor(DecimalValue(whole), DigitsOf(frac)))

\* str::parse::<f32> followed by floor: an optional sign, then inf, infinity
\* or nan in any case, or digits with at most one '.', at least one digit,
\* and an optional exponent; the decimal is rounded to the nearest f32
parse_f32_floor(str) ==
    LET neg == str # <<>> /\ str[1] = "-"
        signed == IF str # <<>> /\ str[1] \in {"-", "+"} THEN Tail(str) ELSE str
        \* the letters of the words and of the exponent in lower case
        ToLower(c) ==
            CASE c = "I" -> "i" [] c = "N" -> "n" [] c = "F" -> "f"
              [] c = "T" -> "t" [] c = "Y" -> "y" [] c = "A" -> "a"
              [] c = "E" -> "e" [] OTHER -> c
        body == [i \in 1..Len(signed) |-> ToLower(signed[i])]
        es == {i \in 1..Len(body) : body[i] = "e"}
        at == IF es = {} THEN Len(body) + 1 ELSE CHOOSE i \in es : TRUE
        number == SubSeq(body, 1, at - 1)
        exponent == IF es = {} THEN [ok |-> TRUE, v |-> 0]
                    ELSE parse_exponent(SubSeq(body, at + 1, Len(body)))
        dots == {i \in 1..Len(number) : number[i] = "."}
        dot == IF dots = {} THEN Len(number) + 1 ELSE CHOOSE i \in dots : TRUE
        whole == SubSeq(number, 1, dot - 1)
        frac == SubSeq(number, dot + 1, Len(number))
        digits == StripZeros(whole \o frac)
        zeros == Len(whole) + Len(frac) - Len(digits)
        valid == /\ Cardinality(es) <= 1
                 /\ exponent.ok
                 /\ \A i \in 1..Len(number) : number[i] \in DecDigits \cup {"."}
                 /\ Cardinality(dots) <= 1
                 /\ Len(whole) + Len(frac) >= 1
    IN  IF body \in {<<"i", "n", "f">>,
                     <<"i", "n", "f", "i", "n", "i", "t", "y">>}
        THEN F32("inf", neg, 0)
        ELSE IF body = <<"n", "a", "n">> THEN F32("nan", neg, 0)
        ELSE IF ~valid
        THEN [ok |-> FALSE, class |-> "finite", neg |-> FALSE, v |-> 0]
        ELSE IF digits = <<>> THEN F32("finite", neg, 0)
        ELSE f32_floor_of(neg, digits, Len(whole) + exponent.v - zeros)

\* `as u8` on a float: the value saturates at the ends of 0..255 and a NaN
\* gives 0
as_u8(f) ==
    CASE f.class = "nan" -> 0
      [] f.class \in {"inf", "huge"} -> IF f.neg THEN 0 ELSE 255
      [] OTHER -> IF f.v < 0 THEN 0 ELSE IF f.v > 255 THEN 255 ELSE f.v

NoneU8 == [some |-> FALSE, v |-> 0]

\* parse_course_credits: (lower, upper) or an error
parse_course_credits(credits_str) ==
    LET hyphens == {i \in 1..Len(credits_str) : credits_str[i] = "-"}
        at == CHOOSE i \in hyphens : \A j \in hyphens : i <= j
        Range(lower, upper) ==
            IF ~lower.ok \/ ~upper.ok
            THEN [ok |-> FALSE, lower |-> 0, upper |-> NoneU8]
            ELSE [ok |-> TRUE, lower |-> as_u8(lower),
                  upper |-> [some |-> TRUE, v |-> as_u8(upper)]]
        Single(single) ==
            IF ~single.ok
            THEN [ok |-> FALSE, lower |-> 0, upper |-> NoneU8]
            ELSE [ok |-> TRUE, lower |-> single.v, upper |-> NoneU8]
    IN  IF hyphens # {}
        THEN Range(parse_f32_floor(SubSeq(credits_str, 1, at - 1)),
                   parse_f32_floor(SubSeq(credits_str, at + 1,
                                          Len(credits_str))))
        ELSE Single(parse_u8(credits_str))

\* what try_from gives: tag is "Ok", "Err" or "Panic"
Classified(kind, entry, guid, credits) ==
    [tag |-> "Ok", err |-> "", kind |-> kind, guid |-> guid,
     name |-> entry.name, number |-> entry.number,
     subject_code |-> entry.subject_code,
     lower |-> credits.lower, upper |-> credits.upper]
Marker(kind) ==
    [tag |-> "Ok", err |-> "", kind |-> kind, guid |-> <<>>,
     name |-> NoneStr, number |-> NoneStr, subject_code |-> NoneStr,
     lower |-> 0, upper |-> NoneU8]
Unclassified(tag, err) ==
    [tag |-> tag, err |-> err, kind |-> "", guid |-> <<>>,
     name |-> NoneStr, number |-> NoneStr, subject_code |-> NoneStr,
     lower |-> 0, upper |-> NoneU8]

\* &guid[1..guid.len() - 1]: with fewer than two bytes the range is 1..0 or
\* the subtraction overflows, and with a first or last character of more
\* than one byte an end of the range is inside a character: the slice panics
GuidSlicePanics(guid) ==
    \/ ByteLen(guid) < 2
    \/ Utf8Len(guid[1]) > 1
    \/ Utf8Len(guid[Len(guid)]) > 1
GuidSlice(guid) == SubSeq(guid, 2, Len(guid) - 1)

\* try_from changed to parse the guid of every entry before it looks at the
\* name
ParsedCourseEntry_try_from_guid_first(entry) ==
    LET With(guid, credits) ==
        IF GuidSlicePanics(entry.guid) THEN Unclassified("Panic", "slice index")
        ELSE IF ~guid.ok THEN Unclassified("Err", guid.err)
        ELSE IF entry.name.some /\ entry.is_narrative = "True"
        THEN CASE entry.name.v = "And" -> Marker("And")
               [] entry.name.v = "Or" -> Marker("Or")
               [] entry.name.v = "" -> Marker("Blank")
               [] OTHER ->
                    IF ~credits.ok THEN Unclassified("Err", "credits")
                    ELSE Classified("Label", entry, guid.inner, credits)
        ELSE IF ~entry.number.some
             THEN Unclassified("Err", "missing course number")
             ELSE IF ~credits.ok THEN Unclassified("Err", "credits")
             ELSE IF ~entry.subject_code.some
             THEN Unclassified("Err", "missing subject code")
             ELSE Classified("Course", entry, guid.inner, credits)
    IN  With(Guid_try_from(GuidSlice(entry.guid)),
             parse_course_credits(entry.credits))

\* TryFrom<RawCourseEntry> for ParsedCourseEntry; guid and credits are what
\* Guid::try_from and parse_course_credits give where the code calls them
ParsedCourseEntry_try_from(entry) ==
    LET With(guid, credits) ==
        IF entry.name.some /\ entry.is_narrative = "True"
        THEN CASE entry.name.v = "And" -> Marker("And")
               [] entry.name.v = "Or" -> Marker("Or")
               [] entry.name.v = "" -> Marker("Blank")
               [] OTHER ->
                    IF GuidSlicePanics(entry.guid)
                    THEN Unclassified("Panic", "slice index")
                    ELSE IF ~guid.ok THEN Unclassified("Err", guid.err)
                    ELSE IF ~credits.ok THEN Unclassified("Err", "credits")
                    ELSE Classified("Label", entry, guid.inner, credits)
        ELSE IF GuidSlicePanics(entry.guid)
             THEN Unclassified("Panic", "slice index")
             ELSE IF ~guid.ok THEN Unclassified("Err", guid.err)
             ELSE IF ~entry.number.some
             THEN Unclassified("Err", "missing course number")
             ELSE IF ~credits.ok THEN Unclassified("Err", "credits")
             ELSE IF ~entry.subject_code.some
             THEN Unclassified("Err", "missing subject code")
             ELSE Classified("Course", entry, guid.inner, credits)
    IN  With(Guid_try_from(GuidSlice(entry.guid)),
             parse_course_credits(entry.credits))

----------------------------------------------------------------------------
\* parse on raw entries: each iteration classifies a raw entry drawn from
\* RawEntries and passes the classified entry to parse_entry

\* Longest input of raw entries.
MaxRawLen == 1

Chars32 == [i \in 1..32 |-> HexLower[((i - 1) % 16) + 1]]
Braced(str) == <<"{">> \o str \o <<"}">>

RawGuids ==
    {<<>>, <<"{">>, <<"{", "}">>, <<"é", "}">>,
     Braced(Chars32),
     Braced(SubSeq(Chars32, 1, 8) \o <<"-">> \o SubSeq(Chars32, 9, 32)),
     Braced([Chars32 EXCEPT ![5] = "g"])}

RawCredits ==
    {<<>>, <<"3">>, <<"x">>, <<"1", ".", "0", "-", "3", ".", "0">>}

RawNames == {NoneStr, SomeStr("And"), SomeStr("Or"), SomeStr(""),
             SomeStr("Select one of:")}

RawEntries ==
    [name : RawNames,
     is_narrative : {"True", "False"},
     guid : RawGuids,
     number : {NoneStr, SomeStr("101")},
     subject_code : {NoneStr, SomeStr("CSC")},
     credits : RawCredits]

Panicked == [status |-> "Panic", err |-> "", detail |-> "", value |-> <<>>]

\* one iteration of the loop of parse on a raw entry: try_from, whose error
\* parse returns as ParsingError, then parse_entry
ParseRaw ==
    /\ result.status = "Running"
    /\ Len(input) = Len(raw_entries)
    /\ Len(input) < MaxRawLen
    /\ \E raw \in RawEntries :
          LET Classify(c) ==
                 IF c.tag = "Ok"
                 THEN Consume([kind |-> c.kind, id |-> Len(input) + 1])
                 ELSE /\ result' = IF c.tag = "Panic" THEN Panicked
                                   ELSE ErrResult("ParsingError", c.err)
                      /\ UNCHANGED <<state, operator, course_buffer, entries, input>>
                      /\ UNCHANGED providerVars
          IN  /\ raw_entries' = Append(raw_entries, raw)
              /\ Classify(ParsedCourseEntry_try_from(raw))

NextRaw == ParseRaw \/ Finish

SpecRaw == Init /\ [][NextRaw]_vars

----------------------------------------------------------------------------
\* CourseParser of the deserialization module: parse takes &mut self, so a
\* parser can be called again.  raw_entries is the parser's field, an
\* Option; the inner state machine is a local of parse and the whole call is
\* one step.  In this specification input is the log of the calls: for each
\* call, the entries it took out of the parser.

\* Longest input given to a reusable parser, and most calls made on it.
MaxReuseLen == 3
MaxCalls == 3

RECURSIVE KindSeqs(_)
KindSeqs(n) ==
    IF n = 0 THEN {<<>>}
    ELSE KindSeqs(n - 1) \cup
         {Append(ks, k) : ks \in {t \in KindSeqs(n - 1) : Len(t) = n - 1},
                          k \in EntryKinds}

ReuseInputs == {Entries(ks) : ks \in KindSeqs(MaxReuseLen)}

\* CourseParser::new
CourseParser_new(raw) == SomeBuf(raw)

\* ParseCoursesState::init()
init == initial

\* the for loop of parse: inner_parser.parse(entry)? on each entry
RECURSIVE inner_parser_parse(_, _)
inner_parser_parse(ps, es) ==
    IF es = <<>> \/ ps.err # "" THEN ps
    ELSE inner_parser_parse(parse_entry(ps, Head(es)), Tail(es))

ExhaustedParser == ErrResult("ExhaustedParser", "")

\* a variant that reads the entries and leaves them in the parser
CourseParser_parse_keeping(p) ==
    IF p.some
    THEN LET ps == inner_parser_parse(init, p.v)
         IN  [raw_entries |-> p, taken |-> p.v,
              result |-> IF ps.err # "" THEN ErrResult(ps.err, ps.detail)
                         ELSE finish(ps)]
    ELSE [raw_entries |-> p, taken |-> <<>>, result |-> ExhaustedParser]

\* CourseParser::parse(&mut self) on a parser whose field is p: the field
\* after the call, the entries taken out of it, and the value returned
CourseParser_parse(p) ==
    IF p.some
    THEN LET ps == inner_parser_parse(init, p.v)
         IN  [raw_entries |-> NoneBuf, taken |-> p.v,
              result |-> IF ps.err # "" THEN ErrResult(ps.err, ps.detail)
                         ELSE finish(ps)]
    ELSE [raw_entries |-> p, taken |-> <<>>, result |-> ExhaustedParser]

InitReuse ==
    /\ ParserInit
    /\ ProviderInit
    /\ raw_entries \in {CourseParser_new(raw) : raw \in ReuseInputs}

\* one call of parse on the parser
ParseCall ==
    /\ Len(input) < MaxCalls
    /\ LET r == CourseParser_parse(raw_entries)
       IN  /\ raw_entries' = r.raw_entries
           /\ input' = Append(input, r.taken)
           /\ result' = r.result
    /\ UNCHANGED <<state, operator, course_buffer, entries>>
    /\ UNCHANGED providerVars

NextReuse == ParseCall

SpecReuse == InitReuse /\ [][NextReuse]_vars

----------------------------------------------------------------------------
\* Guid::try_from on its own: raw_entries holds the string, a sequence of
\* characters, and result what try_from returns for it

\* the string of the tests of guid.rs, without hyphens
TestGuid ==
    <<"C", "7", "A", "D", "8", "7", "5", "E", "1", "3", "4", "4", "4", "D",
      "9", "B", "A", "8", "8", "3", "3", "2", "E", "7", "4", "8", "8", "9",
      "0", "9", "0", "8">>

\* 32 lower-case hex digits, digit i being a * i + b modulo 16
Digits32(a, b) == [i \in 1..32 |-> HexLower[((a * i + b) % 16) + 1]]

UpperCase(str) ==
    [i \in 1..Len(str) |->
        IF \E k \in 11..16 : HexLower[k] = str[i]
        THEN HexUpper[(CHOOSE k \in 11..16 : HexLower[k] = str[i]) - 10]
        ELSE str[i]]

HexStrings ==
    {TestGuid}
    \cup {Digits32(a, b) : a \in {1, 3, 5, 7}, b \in 0..3}
    \cup {UpperCase(Digits32(a, b)) : a \in {1, 3, 5, 7}, b \in 0..3}

\* '-' after the characters 8, 12, 16 and 20
Hyphenated(str) ==
    SubSeq(str, 1, 8) \o <<"-">> \o SubSeq(str, 9, 12) \o <<"-">>
    \o SubSeq(str, 13, 16) \o <<"-">> \o SubSeq(str, 17, 20) \o <<"-">>
    \o SubSeq(str, 21, Len(str))

Repeat(c, n) == [i \in 1..n |-> c]

\* characters that are neither a hex digit nor '-'
OtherChars == {"g", "+", "é", "€", "U+10000"}

GuidInputs ==
    HexStrings
    \cup {Hyphenated(h) : h \in HexStrings}
    \cup {SubSeq(TestGuid, 1, n) : n \in 0..31}
    \cup {<<c>> \o SubSeq(TestGuid, 1, n) : c \in OtherChars, n \in 0..30}
    \cup {SubSeq(Hyphenated(TestGuid), 1, n) : n \in 32..35}
    \cup {SubSeq(TestGuid, 1, 31) \o Repeat("-", n) : n \in 1..5}
    \cup {Repeat("-", n) : n \in 32..36}
    \cup {SubSeq(TestGuid \o TestGuid, 1, n) \o <<c>> :
            c \in OtherChars, n \in 28..35}
    \cup {TestGuid \o SubSeq(TestGuid, 1, n) : n \in 5..8}
    \cup {Hyphenated(TestGuid) \o <<c>> : c \in OtherChars \cup {"0", "-"}}
    \cup {Repeat(c, n) : c \in OtherChars, n \in 37..38}
    \cup {[TestGuid EXCEPT ![i] = c] : i \in 1..32, c \in OtherChars}
    \cup {[Hyphenated(TestGuid) EXCEPT ![i] = c] : i \in 1..36, c \in OtherChars}
    \cup {TestGuid \o Repeat("-", n) \o <<c>> : c \in OtherChars, n \in 0..3}

InitGuid ==
    /\ ParserInit
    /\ ProviderInit
    /\ raw_entries \in GuidInputs

\* the call Guid::try_from(raw_entries)
GuidTryFrom ==
    /\ result.status = "Running"
    /\ LET r == Guid_try_from(raw_entries)
       IN  result' = IF r.ok THEN OkResult(r.inner) ELSE ErrResult(r.err, "")
    /\ UNCHANGED <<state, operator, course_buffer, entries, raw_entries, input>>
    /\ UNCHANGED providerVars

NextGuid == GuidTryFrom

SpecGuid == InitGuid /\ [][NextGuid]_vars

----------------------------------------------------------------------------
\* parse_course_credits on its own: raw_entries holds the credits string and
\* result what the function returns for it, the pair <<lower, upper>>

NumberStrings ==
    {<<>>, <<"0">>, <<"1">>, <<"3">>, <<"1", "2">>, <<"2", "5", "5">>,
     <<"2", "5", "6">>, <<"3", "0", "0">>, <<"1", ".", "0">>,
     <<"3", ".", "0">>, <<"1", ".", "5">>, <<"2", ".", "9">>, <<".", "5">>,
     <<"4", ".">>, <<".">>, <<"+", "2">>, <<"-", "1">>, <<"-", "0", ".", "5">>,
     <<"x">>, <<"1", "x">>,
     <<"0", ".", "9", "9", "9", "9", "9", "9", "9", "9">>,
     <<"2", ".", "9", "9", "9", "9", "9", "9", "9", "9">>,
     <<"1", "e", "2">>, <<"1", ".", "e", "1">>, <<"2", "5", "E", "-", "1">>,
     <<"i", "n", "f">>, <<"-", "I", "n", "f", "i", "n", "i", "t", "y">>,
     <<"N", "a", "N">>, <<"1", "e">>,
     \* -1e-46, written with 45 zeros after the point
     <<"-", "0", ".">> \o [i \in 1..45 |-> "0"] \o <<"1">>}

InitCredits ==
    /\ ParserInit
    /\ ProviderInit
    /\ raw_entries \in
          NumberStrings
          \cup {lower \o <<"-">> \o upper :
                  lower \in NumberStrings, upper \in NumberStrings}

\* the call parse_course_credits(raw_entries)
ParseCourseCredits ==
    /\ result.status = "Running"
    /\ LET Returns(r) == IF r.ok THEN OkResult(<<r.lower, r.upper>>)
                         ELSE ErrResult("ParsingError", "credits")
       IN  result' = Returns(parse_course_credits(raw_entries))
    /\ UNCHANGED <<state, operator, course_buffer, entries, raw_entries, input>>
    /\ UNCHANGED providerVars

NextCredits == ParseCourseCredits

SpecCredits == InitCredits /\ [][NextCredits]_vars

----------------------------------------------------------------------------
\* parse_programs of the parser crate: raw_entries holds the program values
\* given to it and result what it returns, the pair <<programs, errors>>.
\* A program value is described by what decides its deserialization: the
\* kind of JSON value it is (an object, an array, or another value), its
\* guid and its title if they are strings, whether its url is well formed,
\* and its requirements; id is its position in the input.  Of an object,
\* guid_keys tells how many of the keys GUID and guid it has, none, one or
\* both, and guid is the value under the one that sorts first, no string
\* when it has none.  Of an array guid_keys is 1 and the four are its
\* first four elements: one that is absent is no string, malformed or, for
\* the requirements, of kind "Other", as are requirements that deserialize
\* in an array with a fifth element.
\* Requirements are of kind "Null" (null, or no such key in an object),
\* "Courses" (one requirement module whose requirement_list is one
\* requirement with title, req_narrative and an array of course entries
\* under course, the raw entries of the field course), or "Other" (a value
\* the visitors of Requirements return an error for, such as a number).

\* Longest input of program values.
MaxPrograms == 3

ProgramShapes ==
    LET Null == [kind |-> "Null", course |-> <<>>]
        Other == [kind |-> "Other", course |-> <<>>]
        Courses(course) == [kind |-> "Courses", course |-> course]
        Raw(name, is_narrative, guid) ==
            [name |-> name, is_narrative |-> is_narrative, guid |-> guid,
             number |-> SomeStr("101"), subject_code |-> SomeStr("CSC"),
             credits |-> <<"3">>]
        Course == Raw(SomeStr("Data Structures"), "False", Braced(Chars32))
        NoGuid == Raw(SomeStr("Data Structures"), "False", <<>>)
        And == Raw(SomeStr("And"), "True", <<>>)
        Shape(kind, url, guid, title, requirements, guid_keys) ==
            [kind |-> kind, url |-> url, guid |-> guid, title |-> title,
             requirements |-> requirements, guid_keys |-> guid_keys]
        Good == SomeStr(Braced(TestGuid))
    IN  {Shape("Object", "WellFormed", Good, SomeStr("Major"),
               Courses(<<Course, And, Course>>), 1),
         Shape("Object", "WellFormed", SomeStr(Braced(Hyphenated(TestGuid))),
               SomeStr("Minor"), Other, 1),
         Shape("Object", "WellFormed",
               SomeStr(Braced([TestGuid EXCEPT ![5] = "g"])),
               SomeStr("Track"), Null, 1),
         Shape("Object", "WellFormed", Good, NoneStr, Null, 1),
         Shape("Object", "WellFormed", SomeStr(<<>>), SomeStr("Empty"),
               Null, 1),
         Shape("Object", "WellFormed", SomeStr(<<"\n">>), SomeStr("Escaped"),
               Null, 1),
         Shape("Object", "Malformed", NoneStr, SomeStr("Number"), Null, 1),
         Shape("Array", "WellFormed", Good, SomeStr("Listed"),
               Courses(<<Course>>), 1),
         Shape("Array", "Malformed", SomeStr(<<>>), SomeStr("Listed"),
               Null, 1),
         Shape("Object", "WellFormed", Good, SomeStr("Twice"), Null, 2),
         Shape("Array", "WellFormed", SomeStr(<<>>), NoneStr, Other, 1),
         Shape("Other", "Malformed", NoneStr, NoneStr, Other, 1),
         \* requirements with a course entry whose guid is empty
         Shape("Object", "WellFormed", Good, SomeStr("Course"),
               Courses(<<Course, NoGuid>>), 1),
         Shape("Object", "Malformed", Good, NoneStr,
               Courses(<<NoGuid>>), 1),
         Shape("Object", "WellFormed",
               SomeStr(Braced([TestGuid EXCEPT ![5] = "g"])),
               SomeStr("Both"), Courses(<<NoGuid>>), 1),
         Shape("Array", "WellFormed", Good, SomeStr("Listed"),
               Courses(<<NoGuid>>), 1),
         Shape("Array", "WellFormed", Good, NoneStr,
               Courses(<<NoGuid>>), 1),
         \* requirements whose course entries the parser rejects, before
         \* it comes to one with an empty guid or without one
         Shape("Object", "WellFormed", Good, SomeStr("Leading"),
               Courses(<<And, NoGuid>>), 1),
         Shape("Object", "WellFormed", Good, SomeStr("Dangling"),
               Courses(<<Course, And>>), 1),
         \* objects without a guid, which is reported when the object ends,
         \* after the requirements have been deserialized
         Shape("Object", "WellFormed", NoneStr, SomeStr("Keyless"),
               Courses(<<NoGuid>>), 0),
         Shape("Object", "WellFormed", NoneStr, SomeStr("Keyless"),
               Courses(<<Course>>), 0),
         Shape("Object", "WellFormed", NoneStr, SomeStr("Keyless"),
               Courses(<<And, NoGuid>>), 0),
         \* an object whose guid is a number, the error of the value before
         \* its requirements are looked at
         Shape("Object", "WellFormed", NoneStr, SomeStr("Number"),
               Courses(<<NoGuid>>), 1)}

RECURSIVE ShapeSeqs(_)
ShapeSeqs(n) ==
    IF n = 0 THEN {<<>>}
    ELSE ShapeSeqs(n - 1) \cup
         {Append(ss, sh) : ss \in {t \in ShapeSeqs(n - 1) : Len(t) = n - 1},
                           sh \in ProgramShapes}

ProgramValue(shape, id) ==
    [id |-> id, kind |-> shape.kind, url |-> shape.url, guid |-> shape.guid,
     title |-> shape.title, requirements |-> shape.requirements,
     guid_keys |-> shape.guid_keys]

\* get_program_title: the title of an object whose "title" is a string
get_program_title(value) ==
    IF value.kind = "Object" THEN value.title ELSE NoneStr

\* the characters serde_json writes as an escape sequence: the quote, the
\* backslash and the control characters
JsonEscaped == {"\"", "\\", "\n", "\t", "\r", "\f", "U+0001"}

\* deserialize_guid_with_curly_braces on the JSON text of the guid, a string
\* or not: a &str is borrowed from the text, which fails for a value that
\* is no string and for a string written with an escape; then the braces
\* are sliced off unchecked, then Guid::try_from
deserialize_guid_with_curly_braces(json) ==
    IF ~json.some \/ (\E i \in DOMAIN json.v : json.v[i] \in JsonEscaped)
    THEN [tag |-> "Err", inner |-> <<>>]
    ELSE IF GuidSlicePanics(json.v) THEN [tag |-> "Panic", inner |-> <<>>]
    ELSE LET r == Guid_try_from(GuidSlice(json.v))
         IN  IF r.ok THEN [tag |-> "Ok", inner |-> r.inner]
             ELSE [tag |-> "Err", inner |-> <<>>]

\* CoursesParser::new(raw_entries).parse() with i - 1 entries read, ps the
\* configuration and raws the entries left: try_from on the next one, whose
\* error parse returns as ParsingError and whose panic unwinds, then
\* parse_entry, and finish when none is left
RECURSIVE CoursesParser_parse(_, _, _)
CoursesParser_parse(ps, raws, i) ==
    LET Classify(c) ==
            IF c.tag = "Panic" THEN Panicked
            ELSE IF c.tag = "Err" THEN ErrResult("ParsingError", c.err)
            ELSE LET Go(next) ==
                         IF next.err # "" THEN ErrResult(next.err, next.detail)
                         ELSE CoursesParser_parse(next, Tail(raws), i + 1)
                 IN  Go(parse_entry(ps, [kind |-> c.kind, id |-> i]))
    IN  IF raws = <<>> THEN finish(ps)
        ELSE Classify(ParsedCourseEntry_try_from(Head(raws)))

\* Option<Requirements> from the text of the value: null is None; an array
\* of course entries under course goes through the visitors of
\* Requirements, Requirement and CourseEntries to the parser, whose error
\* is the error of the value and whose panic unwinds; another value is an
\* error.  The tag is "Ok", "Err" or "Panic".
Requirements_deserialize(requirements) ==
    CASE requirements.kind = "Null" -> "Ok"
      [] requirements.kind = "Courses" ->
            LET Tag(r) == IF r.status = "Panic" THEN "Panic"
                          ELSE IF r.status = "Ok" THEN "Ok" ELSE "Err"
            IN  Tag(CoursesParser_parse(initial, requirements.course, 1))
      [] OTHER -> "Err"

\* serde_json::from_str::<Program> on the text of a value.  Of an object the
\* fields are deserialized in the order of the keys of a value, which is
\* alphabetical: GUID, guid, requirements, title, url; the second of the two
\* keys of the guid is a duplicate field, and a missing field is reported
\* when the object ends, so that an object without a guid has its
\* requirements deserialized, and unwinds if they panic, before the missing
\* guid is its error.  Of an array the elements are taken as url, guid,
\* title, requirements, and one that is absent or follows the fourth is an
\* error where it is looked for.  Any other value is an error.  The first
\* field that fails or panics decides.
Program_from_str(value) ==
    LET Fields(guid, requirements) ==
            LET program == [id |-> value.id, title |-> value.title.v,
                            guid |-> guid.inner]
            IN  CASE value.kind = "Object" ->
                       IF value.guid_keys = 0
                       THEN [tag |-> IF requirements = "Panic" THEN "Panic"
                                     ELSE "Err",
                             program |-> <<>>]
                       ELSE IF guid.tag # "Ok"
                       THEN [tag |-> guid.tag, program |-> <<>>]
                       ELSE IF value.guid_keys = 2
                       THEN [tag |-> "Err", program |-> <<>>]
                       ELSE IF requirements # "Ok"
                       THEN [tag |-> requirements, program |-> <<>>]
                       ELSE IF ~value.title.some \/ value.url # "WellFormed"
                       THEN [tag |-> "Err", program |-> <<>>]
                       ELSE [tag |-> "Ok", program |-> program]
                  [] value.kind = "Array" ->
                       IF value.url # "WellFormed"
                       THEN [tag |-> "Err", program |-> <<>>]
                       ELSE IF guid.tag # "Ok"
                       THEN [tag |-> guid.tag, program |-> <<>>]
                       ELSE IF ~value.title.some
                       THEN [tag |-> "Err", program |-> <<>>]
                       ELSE IF requirements # "Ok"
                       THEN [tag |-> requirements, program |-> <<>>]
                       ELSE [tag |-> "Ok", program |-> program]
                  [] OTHER -> [tag |-> "Err", program |-> <<>>]
    IN  Fields(deserialize_guid_with_curly_braces(value.guid),
               Requirements_deserialize(value.requirements))

Deserialization(value) ==
    [variant |-> "Deserialization", title |-> get_program_title(value),
     id |-> value.id]

\* the loop of parse_programs left to run on values, given the lists so far;
\* serde_json::to_string_pretty does not fail on a Value
RECURSIVE parse_programs_loop(_, _, _)
parse_programs_loop(values, programs, errors) ==
    LET With(value, r) ==
            IF r.tag = "Panic" THEN Panicked
            ELSE parse_programs_loop(
                     Tail(values),
                     IF r.tag = "Ok" THEN Append(programs, r.program)
                     ELSE programs,
                     IF r.tag = "Ok" THEN errors
                     ELSE Append(errors, Deserialization(value)))
    IN  IF values = <<>> THEN OkResult(<<programs, errors>>)
        ELSE With(Head(values), Program_from_str(Head(values)))

parse_programs(program_jsons) == parse_programs_loop(program_jsons, <<>>, <<>>)

InitPrograms ==
    /\ ParserInit
    /\ ProviderInit
    /\ raw_entries \in {[i \in 1..Len(ss) |-> ProgramValue(ss[i], i)] :
                            ss \in ShapeSeqs(MaxPrograms)}

\* the call parse_programs(raw_entries)
ParsePrograms ==
    /\ result.status = "Running"
    /\ result' = parse_programs(raw_entries)
    /\ UNCHANGED <<state, operator, course_buffer, entries, raw_entries, input>>
    /\ UNCHANGED providerVars

NextPrograms == ParsePrograms

SpecPrograms == InitPrograms /\ [][NextPrograms]_vars

----------------------------------------------------------------------------
\* ProgramsProvider of the server: tasks call get_all_programs, get_program
\* and refresh_cache on one provider.  A task moves from one lock
\* acquisition to the next; what it does between two of them is one step.

\* tokio's RwLock: a request is granted at once when nobody waits and the
\* guards held allow it, and is queued otherwise; a guard that is dropped is
\* handed to the queue in the order of arrival, so a reader behind a waiting
\* writer waits too.  A task whose request was granted while it was queued
\* holds the guard before it runs again.
Compatible(lock, mode) ==
    /\ lock.writer = NoTask
    /\ mode = "write" => lock.readers = {}

Grant(lock, t, mode) ==
    IF mode = "write" THEN [lock EXCEPT !.writer = t]
    ELSE [lock EXCEPT !.readers = @ \cup {t}]

Request(lock, t, mode) ==
    IF lock.waiting = <<>> /\ Compatible(lock, mode)
    THEN Grant(lock, t, mode)
    ELSE [lock EXCEPT !.waiting = Append(@, [task |-> t, mode |-> mode])]

\* the guards that are free go to the head of the queue while it can have one
RECURSIVE Serve(_)
Serve(lock) ==
    IF lock.waiting = <<>> \/ ~Compatible(lock, Head(lock.waiting).mode)
    THEN lock
    ELSE Serve(Grant([lock EXCEPT !.waiting = Tail(@)],
                     Head(lock.waiting).task, Head(lock.waiting).mode))

\* task t holds a guard of the lock
Holds(lock, t) == t \in lock.readers \/ lock.writer = t

\* drop of the guard of task t
Release(lock, t) ==
    Serve([lock EXCEPT !.readers = @ \ {t},
                       !.writer = IF @ = t THEN NoTask ELSE @])

\* what get_all_program_jsons of the JsonProvider can give: an error, or
\* the program values on file
ProviderJsons ==
    {<<>>,
     <<ProgramValue([kind |-> "Object", url |-> "WellFormed",
                     guid |-> SomeStr(Braced(TestGuid)),
                     title |-> SomeStr("Major"),
                     requirements |-> [kind |-> "Null", course |-> <<>>],
                     guid_keys |-> 1], 1)>>,
     <<ProgramValue([kind |-> "Object", url |-> "WellFormed",
                     guid |-> SomeStr(Braced(TestGuid)),
                     title |-> SomeStr("Major"),
                     requirements |-> [kind |-> "Null", course |-> <<>>],
                     guid_keys |-> 1], 1),
       ProgramValue([kind |-> "Object", url |-> "WellFormed",
                     guid |-> SomeStr(Braced(Hyphenated(TestGuid))),
                     title |-> SomeStr("Minor"),
                     requirements |-> [kind |-> "Other", course |-> <<>>],
                     guid_keys |-> 1], 2)>>,
     <<ProgramValue([kind |-> "Object", url |-> "WellFormed",
                     guid |-> SomeStr(<<>>), title |-> SomeStr("Empty"),
                     requirements |-> [kind |-> "Null", course |-> <<>>],
                     guid_keys |-> 1], 1)>>}

ProviderOutcomes ==
    {[ok |-> FALSE, jsons |-> <<>>]} \cup
    {[ok |-> TRUE, jsons |-> j] : j \in ProviderJsons}

\* parse_programs on each of them, computed once
ParsedJsons == [j \in ProviderJsons |-> parse_programs(j)]

\* the guids a caller asks for: the one of the program on file and another
FiledGuid == Guid_try_from(TestGuid).inner
AskedGuids == {FiledGuid, Guid_try_from(Repeat("0", 32)).inner}

\* items.extend(programs): a later program replaces one with the same guid
RECURSIVE Extend(_, _)
Extend(items, programs) ==
    IF programs = <<>> THEN items
    ELSE Extend({p \in items : p.guid # Head(programs).guid} \cup {Head(programs)},
                Tail(programs))

IsEmptyCache(c) == c.items = {} /\ c.errors = <<>>

\* _refresh_cache changed to clear the cache before it reads the provider
ProgramsProvider__refresh_cache_clearing_first(outcome, c) ==
    LET Stores(r) ==
            IF r.status = "Panic"
            THEN [cache |-> EmptyCache, status |-> "Panic"]
            ELSE [cache |-> [items |-> Extend({}, r.value[1]),
                             errors |-> r.value[2]],
                  status |-> "Ok"]
    IN  IF ~outcome.ok
        THEN [cache |-> EmptyCache, status |-> "Err"]
        ELSE Stores(ParsedJsons[outcome.jsons])

\* _refresh_cache on what the provider gave and the cache behind the write
\* guard: the cache after it, and how it ended
ProgramsProvider__refresh_cache(outcome, c) ==
    LET Stores(r) ==
            IF r.status = "Panic"
            THEN [cache |-> c, status |-> "Panic"]
            ELSE [cache |-> [items |-> Extend({}, r.value[1]),
                             errors |-> r.value[2]],
                  status |-> "Ok"]
    IN  IF ~outcome.ok
        THEN [cache |-> c, status |-> "Err"]
        ELSE Stores(ParsedJsons[outcome.jsons])

Getters == {"get_all_programs", "get_program"}

\* the calls made so far by the tasks 1..n
RECURSIVE CallsMade(_)
CallsMade(n) == IF n = 0 THEN 0 ELSE task[n].calls + CallsMade(n - 1)

\* a task calls one of the three methods; nothing is locked before the task
\* is run: the getters begin with the read guard of the cache, refresh_cache
\* with the read guard of the provider
Call(t) ==
    /\ task[t].pc = "idle"
    /\ CallsMade(NumTasks) < MaxProviderCalls
    /\ \E c \in Getters \cup {"refresh_cache"}, g \in AskedGuids :
          /\ c # "get_program" => g = FiledGuid
          /\ task' = [task EXCEPT ![t] =
                        [call |-> c, pc |-> IF c \in Getters THEN "cache_request"
                                            ELSE "json_provider_request",
                         calls |-> @.calls + 1,
                         returned |-> [status |-> "None",
                                       value |-> IF c = "get_program" THEN g
                                                 ELSE <<>>]]]
    /\ UNCHANGED <<cache, cache_lock, json_provider>>
    /\ UNCHANGED parserVars

\* self.cache.read() of a getter is asked for
CacheRequest(t) ==
    /\ task[t].pc = "cache_request"
    /\ cache_lock' = Request(cache_lock, t, "read")
    /\ task' = [task EXCEPT ![t].pc = "cache_read"]
    /\ UNCHANGED <<cache, json_provider>>
    /\ UNCHANGED parserVars

\* the task runs on with the read guard of the cache
CacheRead(t) ==
    /\ task[t].pc = "cache_read"
    /\ Holds(cache_lock, t)
    /\ task' = [task EXCEPT ![t].pc = "cache_check"]
    /\ UNCHANGED <<cache, cache_lock, json_provider>>
    /\ UNCHANGED parserVars

\* CacheCheck changed to keep the read guard while the cache is refreshed
CacheCheck_keeping_guard(t) ==
    /\ task[t].pc = "cache_check"
    /\ task' = [task EXCEPT ![t].pc = IF IsEmptyCache(cache)
                                      THEN "json_provider_request"
                                      ELSE "collect"]
    /\ UNCHANGED <<cache, cache_lock, json_provider>>
    /\ UNCHANGED parserVars

\* the test of the getters under the read guard: an empty cache makes the
\* task drop the guard, a filled one is served
CacheCheck(t) ==
    /\ task[t].pc = "cache_check"
    /\ IF IsEmptyCache(cache)
       THEN /\ cache_lock' = Release(cache_lock, t)
            /\ task' = [task EXCEPT ![t].pc = "json_provider_request"]
       ELSE /\ task' = [task EXCEPT ![t].pc = "collect"]
            /\ UNCHANGED cache_lock
    /\ UNCHANGED <<cache, json_provider>>
    /\ UNCHANGED parserVars

\* self.json_provider.read() is asked for
JsonProviderRequest(t) ==
    /\ task[t].pc = "json_provider_request"
    /\ json_provider' = [json_provider EXCEPT !.lock = Request(@, t, "read")]
    /\ task' = [task EXCEPT ![t].pc = "json_provider_read"]
    /\ UNCHANGED <<cache, cache_lock>>
    /\ UNCHANGED parserVars

\* the task runs on with the read guard of the provider
JsonProviderRead(t) ==
    /\ task[t].pc = "json_provider_read"
    /\ Holds(json_provider.lock, t)
    /\ task' = [task EXCEPT ![t].pc = "cache_write_request"]
    /\ UNCHANGED <<cache, cache_lock, json_provider>>
    /\ UNCHANGED parserVars

\* self.cache.write() is asked for
CacheWriteRequest(t) ==
    /\ task[t].pc = "cache_write_request"
    /\ cache_lock' = Request(cache_lock, t, "write")
    /\ task' = [task EXCEPT ![t].pc = "cache_write"]
    /\ UNCHANGED <<cache, json_provider>>
    /\ UNCHANGED parserVars

\* the task runs on with the write guard of the cache
CacheWrite(t) ==
    /\ task[t].pc = "cache_write"
    /\ cache_lock.writer = t
    /\ task' = [task EXCEPT ![t].pc = "refresh"]
    /\ UNCHANGED <<cache, cache_lock, json_provider>>
    /\ UNCHANGED parserVars

\* _refresh_cache with both guards: it reads the provider and, if that went
\* well, stores what parse_programs gives.  Its guards are dropped when it
\* returns, the write guard of the cache first; returned.status holds what
\* it is about to return
RefreshCache(t) ==
    /\ task[t].pc = "refresh"
    /\ \E outcome \in ProviderOutcomes :
          LET r == ProgramsProvider__refresh_cache(outcome, cache)
          IN  /\ cache' = r.cache
              /\ json_provider' =
                    [json_provider EXCEPT
                        !.reads = @ + 1,
                        !.last = IF outcome.ok THEN "Ok" ELSE "Err"]
              /\ cache_lock' = Release(cache_lock, t)
              /\ task' = [task EXCEPT ![t].pc = "refresh_return",
                                      ![t].returned.status = r.status]
    /\ UNCHANGED parserVars

\* the read guard of the provider is dropped and _refresh_cache returns: an
\* error of the provider (or a panic) ends the call, a getter otherwise
\* goes on to read the cache again
RefreshCacheReturn(t) ==
    /\ task[t].pc = "refresh_return"
    /\ json_provider' = [json_provider EXCEPT !.lock = Release(@, t)]
    /\ task' = [task EXCEPT ![t] =
          IF @.returned.status = "Ok" /\ @.call \in Getters
          THEN [@ EXCEPT !.pc = "cache_reread_request"]
          ELSE [@ EXCEPT !.pc = "idle", !.returned.value = <<>>]]
    /\ UNCHANGED <<cache, cache_lock>>
    /\ UNCHANGED parserVars

\* self.cache.read() is asked for again after the refresh
CacheRereadRequest(t) ==
    /\ task[t].pc = "cache_reread_request"
    /\ cache_lock' = Request(cache_lock, t, "read")
    /\ task' = [task EXCEPT ![t].pc = "cache_reread"]
    /\ UNCHANGED <<cache, json_provider>>
    /\ UNCHANGED parserVars

\* the task runs on with the read guard it asked for after the refresh
CacheReread(t) ==
    /\ task[t].pc = "cache_reread"
    /\ Holds(cache_lock, t)
    /\ task' = [task EXCEPT ![t].pc = "collect"]
    /\ UNCHANGED <<cache, cache_lock, json_provider>>
    /\ UNCHANGED parserVars

\* the getter answers from the cache under the read guard and returns; the
\* sorted vector of get_all_programs is given as the set it is made of
Collect(t) ==
    /\ task[t].pc = "collect"
    /\ task' = [task EXCEPT ![t].pc = "idle", ![t].returned =
                  [status |-> "Ok",
                   value |-> IF task[t].call = "get_all_programs"
                             THEN <<cache.items, cache.errors>>
                             ELSE {p \in cache.items :
                                     p.guid = task[t].returned.value}]]
    /\ cache_lock' = Release(cache_lock, t)
    /\ UNCHANGED <<cache, json_provider>>
    /\ UNCHANGED parserVars

\* what a task does once it has called
Proceed(t) ==
    \/ CacheRequest(t)
    \/ CacheRead(t)
    \/ CacheCheck(t)
    \/ JsonProviderRequest(t)
    \/ JsonProviderRead(t)
    \/ CacheWriteRequest(t)
    \/ CacheWrite(t)
    \/ RefreshCache(t)
    \/ RefreshCacheReturn(t)
    \/ CacheRereadRequest(t)
    \/ CacheReread(t)
    \/ Collect(t)

InitProvider ==
    /\ ParserInit
    /\ ProviderInit
    /\ raw_entries = <<>>

NextProvider == \E t \in Tasks : Call(t) \/ Proceed(t)

SpecProvider == InitProvider /\ [][NextProvider]_vars

\* the runtime polls every task that can go on
SpecProviderFair ==
    SpecProvider /\ \A t \in Tasks : WF_vars(Proceed(t))

----------------------------------------------------------------------------
\* Measures of trees and inputs used by the properties

\* the Course/Label leaves of a sequence of course entries, in pre-order
RECURSIVE LeavesOf(_)
LeavesOf(es) ==
    IF es = <<>> THEN <<>>
    ELSE LET h == Head(es)
         IN  (IF IsLeaf(h) THEN <<h>> ELSE LeavesOf(h.children))
             \o LeavesOf(Tail(es))

\* the And/Or nodes of a sequence of course entries, at any depth
RECURSIVE GroupsOf(_)
GroupsOf(es) ==
    UNION {IF IsGroup(es[i]) THEN {es[i]} \cup GroupsOf(es[i].children) ELSE {} :
           i \in 1..Len(es)}

\* the greatest number of And/Or nodes on a path from the top level to a leaf
RECURSIVE GroupDepth(_)
GroupDepth(es) ==
    LET ds == {IF IsGroup(es[i]) THEN 1 + GroupDepth(es[i].children) ELSE 0 :
               i \in 1..Len(es)}
    IN  IF ds = {} THEN 0 ELSE CHOOSE d \in ds : \A x \in ds : x <= d

IsLeafEntry(e) == e.kind \in LeafKinds

\* the Course/Label entries of an input, as the leaves they become
InputLeaves(in) ==
    LET ls == SelectSeq(in, IsLeafEntry)
    IN  [i \in 1..Len(ls) |-> LeafEntry(ls[i])]

\* the kinds of the entries of an input
KindsOf(in) == [i \in 1..Len(in) |-> in[i].kind]

Returned == result.status # "Running"
Succeeded == result.status = "Ok"

----------------------------------------------------------------------------
\* Properties

\* C1: whenever parse succeeds, the Course/Label leaves of the returned tree
\* in pre-order are exactly the Course/Label entries of the input, in order.
\* Fails: finish in TerminatingBlankRead returns the emitted entries wrapped
\* in the operator and leaves the buffered group out.
C1_LeavesPreserved ==
    Succeeded => LeavesOf(result.value) = InputLeaves(raw_entries)

\* C2: whenever parse succeeds, every And/Or node of the returned tree has at
\* least one child.  Fails: finish in TerminatingBlankRead with nothing
\* emitted yet returns an And/Or node without children.
C2_GroupsNonEmpty ==
    Succeeded => \A g \in GroupsOf(result.value) : g.children # <<>>

\* C3: whenever parse succeeds, And/Or nodes nest at most two deep.  Fails:
\* finish in TerminatingBlankRead wraps the emitted entries, a nest among
\* them, in one more node.
C3_DepthAtMostTwo ==
    Succeeded => GroupDepth(result.value) <= 2

\* C4 as stated: whenever parse succeeds, a group that is a child of a group
\* has the kind of its parent.  Fails on (a And b) Blank Or Blank (c And d),
\* which gives an Or node holding And nodes.
C4_ChildKindIsParentKind ==
    Succeeded =>
        \A g \in GroupsOf(result.value) :
            \A i \in 1..Len(g.children) :
                IsGroup(g.children[i]) => g.children[i].kind = g.kind

\* the And/Or markers of the input from position lo to position hi
MarkerKindsBetween(in, lo, hi) ==
    {in[i].kind : i \in {j \in lo..hi : in[j].kind \in OperatorKinds}}

IsFlatGroup(g) ==
    /\ IsGroup(g)
    /\ g.children # <<>>
    /\ \A i \in 1..Len(g.children) : IsLeaf(g.children[i])

\* C4 amended: whenever parse succeeds, a group of leaves that is a child of
\* a group has the kind of its own operator, the marker read between its
\* leaves in the input, whatever the kind of its parent.
C4_ChildKindIsOwnOperator ==
    Succeeded =>
        \A g \in GroupsOf(result.value) :
            \A i \in 1..Len(g.children) :
                LET c == g.children[i]
                IN  IsFlatGroup(c) =>
                        MarkerKindsBetween(raw_entries, c.children[1].id,
                                           c.children[Len(c.children)].id)
                            = {c.kind}

\* C4 witness: a returned nest whose sub-group differs in kind from the nest
C4_Witness ==
    /\ Succeeded
    /\ \E g \in GroupsOf(result.value) :
          \E i \in 1..Len(g.children) :
              IsFlatGroup(g.children[i]) /\ g.children[i].kind # g.kind

AcceptingStates ==
    {"CourseDetection", "ReadCourseWithOp", "TerminatingBlankRead",
     "NestedReadCourseWithOp", "NestedTerminatingBlankRead"}

\* the step by which parse returns at the end of the input
ReturnsAtEndOfInput ==
    /\ result.status = "Running"
    /\ result'.status # "Running"
    /\ input' = input

\* C5: at the end of the input parse returns Ok from each of the five
\* accepting states and InvalidFinish with the current state from each of
\* the other eight.
C5_FinishAcceptance ==
    [][ReturnsAtEndOfInput =>
          IF state \in AcceptingStates
          THEN result'.status = "Ok"
          ELSE result' = ErrResult("InvalidFinish", state)]_vars

\* C5 witness: parse has returned a tree at the end of a nested sub-group
C5_Witness ==
    /\ Succeeded
    /\ state = "NestedTerminatingBlankRead"

\* C6 as stated: parse of the empty input returns the empty CourseEntries.
C6_EmptyInputOk ==
    (Returned /\ raw_entries = <<>>) => result = OkResult(<<>>)

\* C6 amended: parse of the empty input fails with InvalidFinish carrying
\* InitialState.
C6_EmptyInputInvalidFinish ==
    (Returned /\ raw_entries = <<>>) =>
        result = ErrResult("InvalidFinish", "InitialState")

\* C6 witness: parse has returned on the empty input
C6_Witness ==
    /\ Returned
    /\ raw_entries = <<>>

PositionsOf(in, kinds) == {i \in 1..Len(in) : in[i].kind \in kinds}
Least(S) == CHOOSE x \in S : \A y \in S : x <= y
Greatest(S) == CHOOSE x \in S : \A y \in S : x >= y

\* Blank, k >= 1 leaves, one operator marker, m >= 1 leaves
IsBlankLedFlatGroup(in) ==
    /\ PositionsOf(in, {"Blank"}) = {1}
    /\ Cardinality(PositionsOf(in, OperatorKinds)) = 1
    /\ LET j == Least(PositionsOf(in, OperatorKinds))
       IN  3 <= j /\ j < Len(in)

\* C7: an input Blank, leaves, op, leaves parses to one node of kind op
\* holding all the leaves in order.  Fails: the leaf after a leading Blank is
\* not stored, and the leaf after the marker finds no buffer.
C7_BlankLedFlatGroup ==
    (Returned /\ IsBlankLedFlatGroup(raw_entries)) =>
        result = OkResult(<<GroupEntry(
                     raw_entries[Least(PositionsOf(raw_entries, OperatorKinds))].kind,
                     InputLeaves(raw_entries))>>)

\* leaves X, Blank, leaves, one operator marker, leaves, Blank, leaves Y,
\* every run of leaves non-empty
IsFreeGroupFree(in) ==
    /\ Cardinality(PositionsOf(in, {"Blank"})) = 2
    /\ Cardinality(PositionsOf(in, OperatorKinds)) = 1
    /\ LET b1 == Least(PositionsOf(in, {"Blank"}))
           b2 == Greatest(PositionsOf(in, {"Blank"}))
           j == Least(PositionsOf(in, OperatorKinds))
       IN  /\ 2 <= b1
           /\ b1 + 2 <= j
           /\ j + 2 <= b2
           /\ b2 < Len(in)

FreeGroupFreeTree(in) ==
    LET b1 == Least(PositionsOf(in, {"Blank"}))
        b2 == Greatest(PositionsOf(in, {"Blank"}))
        j == Least(PositionsOf(in, OperatorKinds))
    IN  InputLeaves(SubSeq(in, 1, b1 - 1))
        \o <<GroupEntry(in[j].kind, InputLeaves(SubSeq(in, b1 + 1, b2 - 1)))>>
        \o InputLeaves(SubSeq(in, b2 + 1, Len(in)))

\* C8: free leaves X, a Blank, a flat group body, a Blank and free leaves Y
\* parse to the leaves of X, one node of the group's kind holding the
\* group's leaves, and the leaves of Y, in input order.
C8_FreeGroupFree ==
    (Returned /\ IsFreeGroupFree(raw_entries)) =>
        result = OkResult(FreeGroupFreeTree(raw_entries))

\* C8 witness: parse has returned a tree for an input of that shape
C8_Witness ==
    /\ Succeeded
    /\ IsFreeGroupFree(raw_entries)

C9Input == ScenarioSpecNest("And", "And", "And")

\* the group of the Course entries at positions i and j of the input
PairGroup(op, i, j) ==
    GroupEntry(op, <<Node("Course", i, <<>>), Node("Course", j, <<>>)>>)

\* C9: [B, a, &, b, B, B, p, &, q, B, r, &, s] parses to one And node
\* holding And([a, b]), And([p, q]) and And([r, s]).  Fails: after the
\* leading Blank the leaf a is not stored, and the leaf b finds no buffer.
C9_SpecNestParses ==
    (Returned /\ raw_entries = C9Input) =>
        result = OkResult(<<GroupEntry("And",
                     <<PairGroup("And", 2, 4), PairGroup("And", 7, 9),
                       PairGroup("And", 11, 13)>>)>>)

C10Input == ScenarioSpecNest("And", "Or", "And")

\* C10: [B, a, &, b, B, B, p, |, q, B, r, &, s] is rejected with
\* DoubleNesting.  Fails: the input is rejected at its fourth entry with
\* the ParsingError of a missing buffer, as in C9.
C10_MixedNestDoubleNesting ==
    (Returned /\ raw_entries = C10Input) =>
        (result.status = "Err" /\ result.err = "DoubleNesting")

\* C11: when the input ends in TerminatingBlankRead, parse returns the
\* emitted entries followed by one node of the group's kind holding the
\* buffered entries.  Fails: finish returns one node of the group's kind
\* holding the emitted entries, and the buffered entries are lost.
C11_TrailingBlankEmitsGroup ==
    (Succeeded /\ state = "TerminatingBlankRead") =>
        result = OkResult(Append(entries, GroupEntry(operator, course_buffer.v)))

OnlyLeaves(in) == \A i \in 1..Len(in) : in[i].kind \in LeafKinds

\* C12: a non-empty input of Course and Label entries alone parses to the
\* top-level sequence of those entries, with no And/Or node.
C12_FreeLeaves ==
    (Returned /\ raw_entries # <<>> /\ OnlyLeaves(raw_entries)) =>
        result = OkResult(InputLeaves(raw_entries))

\* C12 witness: parse has returned a tree for a Course followed by a Label
C12_Witness ==
    /\ Succeeded
    /\ KindsOf(raw_entries) = <<"Course", "Label">>

LastKind(in) == in[Len(in)].kind

\* the step by which the loop of parse passes one more entry to parse_entry
ConsumesEntry ==
    /\ result.status = "Running"
    /\ Len(input') = Len(input) + 1

\* what parse_entry would do in the present configuration with an entry of
\* kind k as the next one
NextWith(k) == parse_entry(Config, [kind |-> k, id |-> Len(input) + 1])

\* C13: in every configuration the parser is in after it has accepted a
\* Blank, whichever state that Blank led to, parse_entry on a Blank returns
\* InvalidEntry.
C13_DoubleBlankRejected ==
    (/\ result.status = "Running"
     /\ input # <<>>
     /\ LastKind(input) = "Blank")
        => /\ NextWith("Blank").err = "InvalidEntry"
           /\ NextWith("Blank").detail = "Blank"

\* C13 witness: the parser has accepted the Blank that ends a sub-group of
\* a nest, and a Blank as the next entry is rejected
C13_Witness ==
    /\ result.status = "Running"
    /\ state = "NestedTerminatingBlankRead"
    /\ LastKind(input) = "Blank"
    /\ NextWith("Blank").err = "InvalidEntry"

\* C14: an And or Or marker as the first entry is rejected with
\* InvalidEntry, and nothing after it is read.
C14_LeadingOperatorRejected ==
    (Len(input) >= 1 /\ input[1].kind \in OperatorKinds) =>
        (result = ErrResult("InvalidEntry", input[1].kind) /\ Len(input) = 1)

\* C14 witness: parse has returned on an input that begins with Or
C14_Witness ==
    /\ Returned
    /\ input # <<>>
    /\ input[1].kind = "Or"

\* free leaves and a Blank or nothing, then leaves, op, leaves, op, leaves
\* and so on with the same marker op at least twice, ending with a leaf
IsChainedFlatGroup(in) ==
    LET blanks == PositionsOf(in, {"Blank"})
        ops == PositionsOf(in, OperatorKinds)
    IN  /\ Cardinality(blanks) <= 1
        /\ Cardinality(ops) >= 2
        /\ \A i \in ops : \A j \in ops : in[i].kind = in[j].kind
        /\ in[1].kind \in LeafKinds
        /\ in[Len(in)].kind \in LeafKinds
        /\ \A i \in blanks \cup ops : (i + 1) \notin blanks \cup ops
        /\ \A b \in blanks : \A o \in ops : b < o

ChainedFlatGroupTree(in) ==
    LET blanks == PositionsOf(in, {"Blank"})
        b == IF blanks = {} THEN 0 ELSE Least(blanks)
        op == in[Least(PositionsOf(in, OperatorKinds))].kind
    IN  InputLeaves(SubSeq(in, 1, b - 1))
        \o <<GroupEntry(op, InputLeaves(SubSeq(in, b + 1, Len(in))))>>

\* C15: a flat group in which the group's own marker is repeated between
\* entries is accepted and gives one node of that kind holding all the
\* entries of the group in order.
\* No entry of such a group is rejected on the way: when the entries read so
\* far and one more leaf make such a group, parse has failed only if the
\* input ended there (InvalidFinish).
C15_ChainedOperators ==
    /\ (Returned /\ raw_entries # <<>> /\ IsChainedFlatGroup(raw_entries)) =>
          result = OkResult(ChainedFlatGroupTree(raw_entries))
    /\ (/\ raw_entries # <<>>
        /\ IsChainedFlatGroup(Append(raw_entries,
                                     [kind |-> "Course", id |-> Len(raw_entries) + 1])))
          => (result.status = "Err" => result.err = "InvalidFinish")

\* C15 witness: parse has returned a tree for a group with three markers
C15_Witness ==
    /\ Succeeded
    /\ raw_entries # <<>>
    /\ IsChainedFlatGroup(raw_entries)
    /\ Cardinality(PositionsOf(raw_entries, OperatorKinds)) >= 3

\* C16: in ReadCourseWithOp a marker of the other kind than the group's
\* operator makes parse return an error.
C16_OtherOperatorRejected ==
    [][(/\ ConsumesEntry
        /\ state = "ReadCourseWithOp"
        /\ LastKind(input') \in OperatorKinds
        /\ LastKind(input') # operator)
          => result'.status = "Err"]_vars

\* C16 witness: parse has failed on a marker that differs from the operator
C16_Witness ==
    /\ result = ErrResult("ParsingError", "operator mismatch")
    /\ state = "ReadCourseWithOp"
    /\ LastKind(input) # operator

\* a non-empty run of leaves and then one operator marker
IsLeavesThenOperator(in) ==
    /\ Len(in) >= 2
    /\ PositionsOf(in, OperatorKinds \cup {"Blank"}) = {Len(in)}
    /\ in[Len(in)].kind \in OperatorKinds

\* C17: free leaves, one operator marker and the end of the input give
\* InvalidFinish carrying OperatorRead.
C17_DanglingOperator ==
    (Returned /\ IsLeavesThenOperator(raw_entries)) =>
        result = ErrResult("InvalidFinish", "OperatorRead")

\* C17 witness: parse has returned on such an input
C17_Witness ==
    /\ Returned
    /\ IsLeavesThenOperator(raw_entries)

\* C18: a leaf read right after an operator marker is rejected with
\* InvalidEntry in NestingOperatorRead, and in OperatorRead and
\* NestedOperatorRead it is accepted and appended to the buffer.  Fails: in
\* OperatorRead reached from a leading Blank there is no buffer, and the
\* leaf is rejected with ParsingError.
C18_LeafAfterOperator ==
    [][(/\ ConsumesEntry
        /\ LastKind(input') \in LeafKinds
        /\ state \in {"OperatorRead", "NestedOperatorRead", "NestingOperatorRead"})
          => IF state = "NestingOperatorRead"
             THEN result' = ErrResult("InvalidEntry", LastKind(input'))
             ELSE /\ result'.status = "Running"
                  /\ course_buffer' =
                        SomeBuf(Append(course_buffer.v,
                                       LeafEntry(input'[Len(input')])))]_vars

\* C19: parse returns a value, Ok or Err, for every input of raw entries
\* and never panics.  Fails: a label or course whose guid string has fewer
\* than two characters makes the slice that strips the braces panic.
C19_NeverPanics ==
    result.status # "Panic"

\* C20: once parse has returned on a parser, whether with Ok or with Err,
\* every later call of parse on that parser returns the exhausted-parser
\* error, with no entries in it, and takes no entry out of the parser.
C20_LaterCallsExhausted ==
    [][result.status # "Running" =>
          /\ result' = ExhaustedParser
          /\ result'.value = <<>>
          /\ input'[Len(input')] = <<>>]_vars

\* a third call has returned on a parser whose first call returned Ok on
\* [C, And, C]
C20_Witness ==
    /\ Len(input) = 3
    /\ input[1] = Entries(<<"Course", "And", "Course">>)
    /\ CourseParser_parse(CourseParser_new(input[1])).result.status = "Ok"
    /\ raw_entries = NoneBuf
    /\ result = ExhaustedParser

\* leaves, one marker of kind o, leaves
IsSingleOperatorGroup(in, o) ==
    /\ Len(in) >= 3
    /\ PositionsOf(in, {"Blank"}) = {}
    /\ Cardinality(PositionsOf(in, OperatorKinds)) = 1
    /\ \A i \in PositionsOf(in, OperatorKinds) :
          in[i].kind = o /\ 1 < i /\ i < Len(in)

\* groups with operator o, one or more, joined by Blank n Blank
RECURSIVE IsNestOf(_, _, _)
IsNestOf(in, o, n) ==
    LET blanks == PositionsOf(in, {"Blank"})
        b == Least(blanks)
    IN  IF blanks = {} THEN IsSingleOperatorGroup(in, o)
        ELSE /\ b + 3 <= Len(in)
             /\ IsSingleOperatorGroup(SubSeq(in, 1, b - 1), o)
             /\ in[b + 1].kind = n
             /\ in[b + 2].kind = "Blank"
             /\ IsNestOf(SubSeq(in, b + 3, Len(in)), o, n)

\* one node of kind o for each group of such an input, in input order
RECURSIVE NestChildren(_, _)
NestChildren(in, o) ==
    LET blanks == PositionsOf(in, {"Blank"})
        b == Least(blanks)
    IN  IF blanks = {} THEN <<GroupEntry(o, InputLeaves(in))>>
        ELSE <<GroupEntry(o, InputLeaves(SubSeq(in, 1, b - 1)))>>
             \o NestChildren(SubSeq(in, b + 3, Len(in)), o)

\* C21: an input of two or more groups with operator And joined by
\* Blank Or Blank parses to exactly one top-level Or node whose children are
\* And nodes, one for each group, in input order, each holding the leaves of
\* its group.
C21_NestKeepsGroupKinds ==
    (/\ Returned
     /\ PositionsOf(raw_entries, {"Blank"}) # {}
     /\ IsNestOf(raw_entries, "And", "Or")) =>
        result = OkResult(<<GroupEntry("Or", NestChildren(raw_entries, "And"))>>)

\* C21 witness: parse has returned an Or node of three And nodes
C21_Witness ==
    /\ Succeeded
    /\ IsNestOf(raw_entries, "And", "Or")
    /\ Len(result.value) = 1
    /\ result.value[1].kind = "Or"
    /\ Len(result.value[1].children) = 3
    /\ \A i \in 1..3 : result.value[1].children[i].kind = "And"

\* the marker a narrative raw entry stands for, by its name
IsMarkerEntry(raw) ==
    /\ raw.is_narrative = "True"
    /\ raw.name.some
    /\ raw.name.v \in {"And", "Or", ""}
MarkerKindOf(raw) == IF raw.name.v = "" THEN "Blank" ELSE raw.name.v

\* C22: a raw entry with is_narrative "True" and name "And", "Or" or ""
\* is classified as the And, Or or Blank marker, whatever its guid, credits,
\* number and subject code are: the entry reaches parse_entry as that marker.
C22_MarkersClassified ==
    \A i \in 1..Len(raw_entries) :
        IsMarkerEntry(raw_entries[i]) =>
            /\ Len(input) >= i
            /\ input[i].kind = MarkerKindOf(raw_entries[i])

\* C22 witness: an entry named "Or" whose guid is empty, whose credits are
\* no number and whose number and subject code are missing has been read as
\* the Or marker
C22_Witness ==
    /\ Len(raw_entries) = 1
    /\ raw_entries[1].name = SomeStr("Or")
    /\ raw_entries[1].is_narrative = "True"
    /\ raw_entries[1].guid = <<>>
    /\ raw_entries[1].credits = <<"x">>
    /\ ~raw_entries[1].number.some
    /\ ~raw_entries[1].subject_code.some
    /\ input = <<[kind |-> "Or", id |-> 1]>>

\* C23: a raw entry with is_narrative "False" whose number or subject code
\* is missing is not classified: parse returns the classifier's error.
\* Fails: when the guid of such an entry has fewer than two characters the
\* slice that strips the braces panics before the fields are looked at.
C23_MissingFieldIsError ==
    \A i \in 1..Len(raw_entries) :
        (/\ raw_entries[i].is_narrative = "False"
         /\ (~raw_entries[i].number.some \/ ~raw_entries[i].subject_code.some))
            => /\ Len(input) < i
               /\ result.status = "Err"
               /\ result.err = "ParsingError"

IsHexDigit(c) == hex_to_num(c) # -1
HexDigitsOf(str) == SelectSeq(str, IsHexDigit)
HasOtherChar(str) == \E i \in 1..Len(str) : ~IsHexDigit(str[i]) /\ str[i] # "-"

\* C24: for a string of 32 hex digits, and for the same digits with '-'
\* after the 8th, 12th, 16th and 20th, Guid::try_from returns the 16 bytes
\* of which the i-th is 16 times the value of digit 2i - 1 plus the value of
\* digit 2i, counting bytes and digits from 1.
C24_GuidBytes ==
    LET h == HexDigitsOf(raw_entries)
    IN  (/\ Returned
         /\ Len(h) = 32
         /\ raw_entries \in {h, Hyphenated(h)}) =>
            result = OkResult([i \in 1..16 |->
                        16 * hex_to_num(h[2 * i - 1]) + hex_to_num(h[2 * i])])

\* C24 witness: the hyphenated string of the tests has given the bytes the
\* tests expect
C24_Witness ==
    /\ raw_entries = Hyphenated(TestGuid)
    /\ result = OkResult(<<199, 173, 135, 94, 19, 68, 77, 155,
                           168, 131, 50, 231, 72, 137, 9, 8>>)

\* C25 as stated: TooShort for every string of fewer than 32 characters and
\* for every string of 32 to 36 characters with fewer than 32 hex digits,
\* TooLong for every string of more than 36 characters.  Fails on 31 hex
\* digits followed by a character that is no hex digit (InvalidCharacter).
C25_LengthErrors ==
    Returned =>
        /\ Len(raw_entries) < 32 => result = ErrResult("TooShort", "")
        /\ (/\ Len(raw_entries) \in 32..36
            /\ Len(HexDigitsOf(raw_entries)) < 32)
              => result = ErrResult("TooShort", "")
        /\ Len(raw_entries) > 36 => result = ErrResult("TooLong", "")

\* C25 amended: TooShort for every string of fewer than 32 bytes, whatever
\* its characters, and for every string of 32 to 36 bytes that is made of
\* hex digits and '-' alone and holds fewer than 32 hex digits; TooLong for
\* every string of more than 36 bytes, whatever its characters.
C25_ByteLengthErrors ==
    Returned =>
        /\ ByteLen(raw_entries) < 32 => result = ErrResult("TooShort", "")
        /\ (/\ ByteLen(raw_entries) \in 32..36
            /\ ~HasOtherChar(raw_entries)
            /\ Len(HexDigitsOf(raw_entries)) < 32)
              => result = ErrResult("TooShort", "")
        /\ ByteLen(raw_entries) > 36 => result = ErrResult("TooLong", "")

\* C25 witness: a string of fewer than 32 bytes that begins with a character
\* that is no hex digit has given TooShort
C25_Witness ==
    /\ raw_entries # <<>>
    /\ raw_entries[1] = "g"
    /\ ByteLen(raw_entries) < 32
    /\ result = ErrResult("TooShort", "")

\* C26: InvalidCharacter for every string of 32 to 36 characters that holds
\* a character that is neither a hex digit nor '-', wherever it stands.
\* Fails: a character after the 32nd hex digit is never read, and the string
\* is accepted.
C26_InvalidCharacterAnywhere ==
    (/\ Returned
     /\ Len(raw_entries) \in 32..36
     /\ HasOtherChar(raw_entries)) =>
        result = ErrResult("InvalidCharacter", "")

\* C27: every credit range that parse_course_credits returns with an upper
\* bound has upper >= lower.  Fails: the two numbers are parsed one by one
\* and never compared, so "3-1" gives (3, Some(1)).
C27_UpperAtLeastLower ==
    (Succeeded /\ result.value[2].some) =>
        result.value[2].v >= result.value[1]

IdsOf(list) == [i \in 1..Len(list) |-> list[i].id]
IsIncreasing(ids) == \A i \in 1..Len(ids) : \A j \in 1..Len(ids) : i < j => ids[i] < ids[j]

\* C28: parse_programs returns, for every input, a list of programs and a
\* list of errors in which each input value has exactly one element in one
\* of the two, each list in input order.  Fails: a program whose guid string
\* has fewer than two characters makes the deserializer panic, and nothing
\* is returned for any program of the input.
C28_EveryProgramAccounted ==
    Returned =>
        /\ result.status = "Ok"
        /\ Len(result.value[1]) + Len(result.value[2]) = Len(raw_entries)
        /\ \A i \in 1..Len(raw_entries) :
              Cardinality({k \in 1..Len(result.value[1]) : result.value[1][k].id = i})
              + Cardinality({k \in 1..Len(result.value[2]) : result.value[2][k].id = i})
              = 1
        /\ IsIncreasing(IdsOf(result.value[1]))
        /\ IsIncreasing(IdsOf(result.value[2]))

\* C29: an entry gives DoubleNesting exactly when the state is
\* NestedTerminatingBlankRead and the entry is an And/Or marker whose kind
\* differs from the kind of the last emitted entry, the nest; a marker of
\* the nest's kind leads to NestingOperatorRead; this holds whatever the
\* sub-group's own operator is, and finish never gives DoubleNesting.
C29_DoubleNestingOnlyOnNestMismatch ==
    result.status = "Running" =>
        /\ finish(Config).err # "DoubleNesting"
        /\ \A k \in EntryKinds :
              /\ NextWith(k).err = "DoubleNesting" <=>
                    /\ state = "NestedTerminatingBlankRead"
                    /\ k \in OperatorKinds
                    /\ k # entries[Len(entries)].kind
              /\ (/\ state = "NestedTerminatingBlankRead"
                  /\ k \in OperatorKinds
                  /\ k = entries[Len(entries)].kind)
                    => (NextWith(k).err = ""
                        /\ NextWith(k).state = "NestingOperatorRead")

\* C29 witness: parse has returned DoubleNesting on a marker that is the
\* sub-group's own operator and differs from the kind of the nest
C29_Witness ==
    /\ result = ErrResult("DoubleNesting", "")
    /\ state = "NestedTerminatingBlankRead"
    /\ LastKind(input) # entries[Len(entries)].kind
    /\ LastKind(input) = entries[Len(entries)].children[2].kind

\* C30: in NestedReadCourseWithOp every And/Or marker is rejected with
\* InvalidEntry, the sub-group's own operator included, while in
\* ReadCourseWithOp a repetition of the group's operator is accepted.
C30_NoChainInNest ==
    result.status = "Running" =>
        /\ state = "NestedReadCourseWithOp" =>
              \A k \in OperatorKinds :
                  /\ NextWith(k).err = "InvalidEntry"
                  /\ NextWith(k).detail = k
        /\ state = "ReadCourseWithOp" =>
              (NextWith(operator).err = ""
               /\ NextWith(operator).state = "OperatorRead")

\* C30 witness: parse has returned InvalidEntry on a repetition of the
\* operator of a nested sub-group
C30_Witness ==
    /\ result.err = "InvalidEntry"
    /\ state = "NestedReadCourseWithOp"
    /\ result.detail = operator
    /\ LastKind(input) = operator

\* k >= 1 leaves, one operator marker, m >= 1 leaves, no Blank
IsLeavesOpLeaves(in) ==
    /\ PositionsOf(in, {"Blank"}) = {}
    /\ Cardinality(PositionsOf(in, OperatorKinds)) = 1
    /\ LET j == Least(PositionsOf(in, OperatorKinds))
       IN  2 <= j /\ j < Len(in)

\* one operator marker and then m >= 1 leaves
IsOpThenLeaves(in) ==
    /\ Len(in) >= 2
    /\ PositionsOf(in, OperatorKinds) = {1}
    /\ PositionsOf(in, {"Blank"}) = {}

\* the configuration of the parser after the first p entries of an input
AfterPrefix(in, p) == inner_parser_parse(initial, SubSeq(in, 1, p))

\* the input splits after p entries into a part that leaves the parser in
\* CourseDetection and a marker followed by leaves
MarkerInCourseDetection(in, p) ==
    /\ IsOpThenLeaves(SubSeq(in, p + 1, Len(in)))
    /\ AfterPrefix(in, p).err = ""
    /\ AfterPrefix(in, p).state = "CourseDetection"

\* C31: leaves, one marker op, leaves parse to one node of kind op holding
\* all the leaves in order; more generally, when a marker is read in
\* CourseDetection and only leaves follow, parse returns the entries emitted
\* so far followed by one node of the marker's kind holding the buffered
\* leaves and the leaves after the marker.  No entry of such an input is
\* rejected on the way.
C31_MarkerGroupsPendingLeaves ==
    /\ (Returned /\ IsLeavesOpLeaves(raw_entries)) =>
          result = OkResult(<<GroupEntry(
                       raw_entries[Least(PositionsOf(raw_entries, OperatorKinds))].kind,
                       InputLeaves(raw_entries))>>)
    /\ Returned =>
          \A p \in 1..Len(raw_entries) :
              MarkerInCourseDetection(raw_entries, p) =>
                  LET pre == AfterPrefix(raw_entries, p)
                      tail == SubSeq(raw_entries, p + 1, Len(raw_entries))
                  IN  result = OkResult(pre.entries \o
                                   <<GroupEntry(tail[1].kind,
                                        pre.course_buffer.v \o InputLeaves(tail))>>)
    /\ IsLeavesOpLeaves(Append(raw_entries,
                               [kind |-> "Course", id |-> Len(raw_entries) + 1]))
          => (result.status = "Err" => result.err = "InvalidFinish")

\* C31 witness: parse has returned a tree for an input in which a marker
\* was read in CourseDetection with two leaves pending and a group emitted
C31_Witness ==
    /\ Succeeded
    /\ \E p \in 1..Len(raw_entries) :
          /\ MarkerInCourseDetection(raw_entries, p)
          /\ AfterPrefix(raw_entries, p).entries # <<>>
          /\ Len(AfterPrefix(raw_entries, p).course_buffer.v) >= 2

\* C32: the only errors parse returns are InvalidEntry, InvalidFinish,
\* DoubleNesting and the operator mismatch; in particular the internal error
\* that reports a missing buffer is never returned.  Fails: after a leading
\* Blank the buffer is still None when the first leaf of the group is read.
C32_OnlyEntryErrors ==
    result.status = "Err" =>
        \/ result.err \in {"InvalidEntry", "InvalidFinish", "DoubleNesting"}
        \/ result = ErrResult("ParsingError", "operator mismatch")

\* the states in which a group's operator has been read and not yet used
OperatorStates ==
    {"OperatorRead", "ReadCourseWithOp", "TerminatingBlankRead",
     "NestedOperatorRead", "NestedReadCourseWithOp", "NestedTerminatingBlankRead"}

\* C33: in every configuration of the parser the operator is set exactly
\* when the state is one of the six states of OperatorStates, and neither
\* check on the operator ever fails.  Fails in the configuration that
\* parse_entry leaves behind when it returns DoubleNesting: the operator has
\* been taken and the state is still NestedTerminatingBlankRead.
C33_OperatorSetInOperatorStates ==
    /\ operator # "None" <=> state \in OperatorStates
    /\ result.detail \notin {"operator should be None", "operator should not be None"}

\* the states in which a nest is open
NestStates ==
    {"NestingOperatorRead", "NestedInitialBlankRead", "NestedReadCourseNoOp",
     "NestedOperatorRead", "NestedReadCourseWithOp", "NestedTerminatingBlankRead"}

\* C34: in every configuration whose state is one of the six states of
\* NestStates the emitted list is non-empty and its last element is an
\* And/Or node, and neither check on the last emitted entry ever fails.
C34_NestIsLastEmitted ==
    /\ state \in NestStates =>
          (entries # <<>> /\ IsGroup(entries[Len(entries)]))
    /\ result.detail \notin {"there should be at least one entry",
                             "invalid nesting operator group"}

\* C34 witness: a second sub-group has been read to its closing Blank while
\* the nest, holding the first sub-group, is the last emitted entry
C34_Witness ==
    /\ state = "NestedTerminatingBlankRead"
    /\ result.status = "Running"
    /\ entries # <<>>
    /\ IsGroup(entries[Len(entries)])
    /\ Len(entries[Len(entries)].children) = 1
    /\ course_buffer.some

\* C35: a call of parse_entry that returns DoubleNesting leaves the emitted
\* list, the buffer and the operator as they were.  Fails: the buffer and
\* the operator are taken and the sub-group is pushed into the nest before
\* the marker is compared with the kind of the nest.
C35_DoubleNestingLeavesConfiguration ==
    [][(ConsumesEntry /\ result'.err = "DoubleNesting")
          => /\ entries' = entries
             /\ course_buffer' = course_buffer
             /\ operator' = operator]_vars

\* a call of get_all_program_jsons that fails is made in this step
ProviderFails ==
    /\ json_provider'.reads = json_provider.reads + 1
    /\ json_provider'.last = "Err"

\* C36: when the JSON provider fails during a refresh, started by
\* refresh_cache or by a getter that found the cache empty, the items and
\* errors of the cache stay as they were and the call returns the error.
C36_FailedRefreshKeepsCache ==
    [][/\ ProviderFails =>
             /\ cache' = cache
             /\ \E t \in Tasks :
                   /\ task[t].pc = "refresh"
                   /\ task'[t].pc = "refresh_return"
                   /\ task'[t].returned.status = "Err"
       /\ \A t \in Tasks :
             (/\ task[t].pc = "refresh_return"
              /\ task[t].returned.status = "Err"
              /\ task'[t] # task[t]) =>
                 /\ task'[t].pc = "idle"
                 /\ task'[t].returned.status = "Err"
                 /\ cache' = cache]_vars

\* C36 witness: a refresh has failed on a cache that holds a program and an
\* error, and the cache still holds them
C36_Witness ==
    /\ json_provider.last = "Err"
    /\ cache.items # {}
    /\ cache.errors # <<>>
    /\ \E t \in Tasks : task[t].pc = "idle" /\ task[t].returned.status = "Err"

\* the tasks whose request for the lock is queued in the given mode
Waiting(lock, mode) ==
    {lock.waiting[i].task : i \in {j \in DOMAIN lock.waiting :
                                      lock.waiting[j].mode = mode}}

\* no task waits for the write guard of the cache with a read guard of it
NoUpgrade == Waiting(cache_lock, "write") \cap cache_lock.readers = {}

\* the provider is locked before the cache: who waits for or holds the write
\* guard of the cache holds a read guard of the provider, and who is about
\* to lock the provider neither holds nor waits for a guard of the cache
LockOrder ==
    /\ \A t \in Waiting(cache_lock, "write") \cup ({cache_lock.writer} \ {NoTask}) :
          t \in json_provider.lock.readers
    /\ \A t \in Tasks :
          task[t].pc \in {"json_provider_request", "json_provider_read"} =>
              /\ ~Holds(cache_lock, t)
              /\ t \notin Waiting(cache_lock, "read") \cup Waiting(cache_lock, "write")

\* C37: under every interleaving of get_all_programs, get_program and
\* refresh_cache calls of the tasks, no task waits for the write guard of
\* the cache while it holds a read guard of it, the read guard of the
\* provider is taken before the write guard of the cache, and every call
\* that was started returns.
C37_NoDeadlock ==
    /\ [](NoUpgrade /\ LockOrder)
    /\ \A t \in Tasks : (task[t].pc # "idle") ~> (task[t].pc = "idle")

\* C37 witness: a task waits for the write guard of the cache, holding the
\* read guard of the provider, behind another task that reads the cache
C37_Witness ==
    \E t, u \in Tasks :
        /\ t # u
        /\ task[t].call \in Getters
        /\ task[t].pc = "cache_write"
        /\ t \in Waiting(cache_lock, "write")
        /\ t \in json_provider.lock.readers
        /\ u \in cache_lock.readers
        /\ cache_lock.writer # t

\* task t, called as a getter, runs _refresh_cache in this step
GetterRefreshes(t) ==
    /\ task[t].call \in Getters
    /\ task[t].pc = "refresh"
    /\ task'[t].pc # "refresh"
    /\ json_provider'.reads = json_provider.reads + 1

\* the tasks have called nothing but get_all_programs and get_program
OnlyGetters == \A u \in Tasks : task[u].call \in Getters \cup {"None"}

\* C38: of the tasks that call get_all_programs or get_program while the
\* cache is empty only one reads the JSON provider and fills the cache; a
\* task that lost the race does not refresh the cache the winner has filled.
C38_FilledOnce ==
    [][\A t \in Tasks :
          OnlyGetters /\ GetterRefreshes(t) => IsEmptyCache(cache)]_vars

====
